---- MODULE Spec2Model ----
(***************************************************************************)
(* Receipt field extraction engine: the OCR orchestrator (processReceipt,  *)
(* processPdf, processImage), the AI collaborator (parseWithGemini,        *)
(* parseWithGeminiVision), the two rule-based extractors (parsePLNText,    *)
(* parsePaymentText), the sanitizer (cleanValue) and the numeric           *)
(* heuristics (snapToNearestPLN, formatIndoMonth).                         *)
(*                                                                         *)
(* Text is modelled character by character: a JavaScript string is the     *)
(* TLA+ string with the same characters, and the operators below take it   *)
(* apart into a sequence of one-character strings to work on it.  Regular  *)
(* expressions are syntax trees transcribed from the regex literals of the *)
(* source and run by a backtracking matcher with the priorities of the     *)
(* JavaScript engine (greedy and lazy quantifiers, leftmost alternative    *)
(* first, leftmost match of the subject).                                  *)
(***************************************************************************)
EXTENDS Integers, Sequences, FiniteSets, TLC

(***************************************************************************)
(* Strings                                                                 *)
(***************************************************************************)
Chars(str) == [i \in 1..Len(str) |-> SubSeq(str, i, i)]

\* the string of a sequence of characters (joined by halves)
RECURSIVE Str(_)
Str(cs) ==
  IF cs = <<>> THEN ""
  ELSE IF Len(cs) = 1 THEN cs[1]
  ELSE LET h == Len(cs) \div 2
       IN  Str(SubSeq(cs, 1, h)) \o Str(SubSeq(cs, h + 1, Len(cs)))

LowerLetters == Chars("abcdefghijklmnopqrstuvwxyz")
UpperLetters == Chars("ABCDEFGHIJKLMNOPQRSTUVWXYZ")
DigitChars == Chars("0123456789")

Range(f) == {f[i] : i \in DOMAIN f}

Lowers == Range(LowerLetters)
Uppers == Range(UpperLetters)
Letters == Lowers \cup Uppers
Digits == Range(DigitChars)
\* \s of the regex engine (the white space that OCR text can hold)
WS == {" ", "\n", "\r", "\t"}
\* \w of the regex engine
WordChars == Letters \cup Digits \cup {"_"}
\* what "." does not match
LineEnds == {"\n", "\r"}

IndexIn(c, letters) == CHOOSE i \in 1..Len(letters) : letters[i] = c

\* String.prototype.toUpperCase on one character
toUpperChar(c) == IF c \in Lowers THEN UpperLetters[IndexIn(c, LowerLetters)] ELSE c
toLowerChar(c) == IF c \in Uppers THEN LowerLetters[IndexIn(c, UpperLetters)] ELSE c

toUpperCase(str) == Str([i \in 1..Len(str) |-> toUpperChar(SubSeq(str, i, i))])

\* the two cases of a character: how the i flag widens a literal
BothCases(c) == {toUpperChar(c), toLowerChar(c)}

DigitVal(c) == IndexIn(c, DigitChars) - 1

\* String.prototype.trim: from the first to the last character that is not
\* white space
trim(str) ==
  LET inked == {i \in 1..Len(str) : SubSeq(str, i, i) \notin WS}
  IN  IF inked = {} THEN ""
      ELSE SubSeq(str, CHOOSE i \in inked : \A j \in inked : i <= j,
                       CHOOSE i \in inked : \A j \in inked : j <= i)

\* str without its leading white space
trimStart(str) ==
  LET inked == {i \in 1..Len(str) : SubSeq(str, i, i) \notin WS}
  IN  IF inked = {} THEN ""
      ELSE SubSeq(str, CHOOSE i \in inked : \A j \in inked : i <= j, Len(str))

\* str.replace(/[set]/g, ''): drop every character of the set
RemoveChars(str, set) == Str(SelectSeq(Chars(str), LAMBDA c : c \notin set))

\* str.replace(/[^set]/g, ''): keep only the characters of the set
KeepChars(str, set) == Str(SelectSeq(Chars(str), LAMBDA c : c \in set))

\* str.replace(/\s+/g, ' '): of each run of white space only the first
\* character stays, as a blank
NormalizeSpaces(str) ==
  LET firsts == SelectSeq([i \in 1..Len(str) |-> i],
                          LAMBDA i : ~(/\ SubSeq(str, i, i) \in WS
                                       /\ i > 1
                                       /\ SubSeq(str, i - 1, i - 1) \in WS))
  IN  Str([k \in 1..Len(firsts) |->
             IF SubSeq(str, firsts[k], firsts[k]) \in WS THEN " "
             ELSE SubSeq(str, firsts[k], firsts[k])])

IsDigits(str) == \A i \in 1..Len(str) : SubSeq(str, i, i) \in Digits

(***************************************************************************)
(* Regular expressions: syntax                                             *)
(***************************************************************************)
\* [set]
Cls(set) == [t |-> "cls", set |-> set]
\* [^set]
NotCls(set) == [t |-> "ncls", set |-> set]
\* concatenation
Cat(xs) == [t |-> "cat", xs |-> xs]
\* a|b|c, leftmost first
Alt(xs) == [t |-> "alt", xs |-> xs]
\* x{min,max}, greedy, x a character class (every quantified expression of
\* the source's patterns is one); max = -1 is "no upper limit"
Rep(x, min, max) == [t |-> "rep", x |-> x, min |-> min, max |-> max]
\* x+? and x*? (lazy), x a character class
Lazy(x, min) == [t |-> "lazy", x |-> x, min |-> min]
LazyPlus(x) == Lazy(x, 1)
LazyStar(x) == Lazy(x, 0)
\* (x), capture group n
Grp(n, x) == [t |-> "grp", n |-> n, x |-> x]
\* (?=x)
Look(x) == [t |-> "look", x |-> x]
\* (?!x)
NotLook(x) == [t |-> "nlook", x |-> x]
\* x+ (greedy) for an x that is more than a character class and consumes
\* something each time
Many(x) == [t |-> "many", x |-> x]
\* \b and \B
WordB == [t |-> "wordb"]
NotWordB == [t |-> "nwordb"]
\* ^ and $ (no m flag anywhere in the source)
Bol == [t |-> "bol"]
Eol == [t |-> "eol"]

Star(x) == Rep(x, 0, -1)
Plus(x) == Rep(x, 1, -1)
Opt(x) == Rep(x, 0, 1)
\* a literal, case sensitive: the characters allowed at each place
Lit(str) == [t |-> "lit", sets |-> [i \in 1..Len(str) |-> {SubSeq(str, i, i)}]]
\* a literal under the i flag
LitI(str) == [t |-> "lit", sets |-> [i \in 1..Len(str) |-> BothCases(SubSeq(str, i, i))]]
\* alternatives of literals under the i flag
AltI(strs) == Alt([i \in 1..Len(strs) |-> LitI(strs[i])])
\* .
AnyChar == NotCls(LineEnds)
ws == Cls(WS)
digit == Cls(Digits)
\* [\d,.]
numChar == Cls(Digits \cup {",", "."})

(***************************************************************************)
(* Regular expressions: the backtracking matcher                           *)
(*                                                                         *)
(* A match state is the position reached (1-based index of the next        *)
(* character) and the capture groups, <<0, 0>> for a group that did not    *)
(* take part.  M gives every way the expression can match from a state, in *)
(* the order in which the engine would try them; the engine's answer is    *)
(* the first.                                                              *)
(***************************************************************************)
NoGroup == <<0, 0>>
StartState(i) == [pos |-> i, cap |-> <<NoGroup, NoGroup>>]

IsWordAt(s, i) == i >= 1 /\ i <= Len(s) /\ s[i] \in WordChars

\* does the character class x accept the character c
Accepts(x, c) == IF x.t = "cls" THEN c \in x.set ELSE c \notin x.set

\* how many characters from position i on the class x accepts in a row, at
\* most max of them (max = -1: no limit)
RunLength(x, s, i, max) ==
  LET limit == IF max < 0 \/ Len(s) - i + 1 < max THEN Len(s) - i + 1 ELSE max
      stops == {k \in 0..limit : k = limit \/ ~Accepts(x, s[i + k])}
  IN  CHOOSE k \in stops : \A j \in stops : k <= j

RECURSIVE M(_, _, _)
RECURSIVE MAll(_, _, _)

\* M from each state of a list, in the order of the list (joined by halves)
MAll(re, s, sts) ==
  IF sts = <<>> THEN <<>>
  ELSE IF Len(sts) = 1 THEN M(re, s, sts[1])
  ELSE LET h == Len(sts) \div 2
       IN  MAll(re, s, SubSeq(sts, 1, h)) \o MAll(re, s, SubSeq(sts, h + 1, Len(sts)))

M(re, s, st) ==
  CASE re.t \in {"cls", "ncls"} ->
         IF st.pos <= Len(s) /\ Accepts(re, s[st.pos])
           THEN <<[st EXCEPT !.pos = @ + 1]>> ELSE <<>>
    [] re.t = "lit" ->
         IF st.pos + Len(re.sets) - 1 <= Len(s)
            /\ \A i \in 1..Len(re.sets) : s[st.pos + i - 1] \in re.sets[i]
           THEN <<[st EXCEPT !.pos = @ + Len(re.sets)]>> ELSE <<>>
    [] re.t = "cat" ->
         IF re.xs = <<>> THEN <<st>>
         ELSE LET first == M(Head(re.xs), s, st)
              IN  IF first = <<>> THEN <<>> ELSE MAll(Cat(Tail(re.xs)), s, first)
    [] re.t = "alt" ->
         IF re.xs = <<>> THEN <<>>
         ELSE M(Head(re.xs), s, st) \o M(Alt(Tail(re.xs)), s, st)
    [] re.t = "rep" ->
         \* greedy: the longest run first, then one character less at a time
         LET run == RunLength(re.x, s, st.pos, re.max)
         IN  IF run < re.min THEN <<>>
             ELSE [k \in 1..(run - re.min + 1) |-> [st EXCEPT !.pos = @ + run - k + 1]]
    [] re.t = "lazy" ->
         \* lazy: the shortest run first, then one character more at a time
         LET run == RunLength(re.x, s, st.pos, -1)
         IN  IF run < re.min THEN <<>>
             ELSE [k \in 1..(run - re.min + 1) |-> [st EXCEPT !.pos = @ + re.min + k - 1]]
    [] re.t = "grp" ->
         LET inner == M(re.x, s, st)
         IN  [i \in 1..Len(inner) |->
                [inner[i] EXCEPT !.cap[re.n] = <<st.pos, inner[i].pos>>]]
    [] re.t = "look" ->
         IF M(re.x, s, st) = <<>> THEN <<>> ELSE <<st>>
    [] re.t = "nlook" ->
         IF M(re.x, s, st) = <<>> THEN <<st>> ELSE <<>>
    [] re.t = "many" ->
         \* after each way of matching x once: first going on, then stopping
         MAll(Alt(<<re, Cat(<<>>)>>), s, M(re.x, s, st))
    [] re.t = "wordb" ->
         IF IsWordAt(s, st.pos - 1) # IsWordAt(s, st.pos) THEN <<st>> ELSE <<>>
    [] re.t = "nwordb" ->
         IF IsWordAt(s, st.pos - 1) = IsWordAt(s, st.pos) THEN <<st>> ELSE <<>>
    [] re.t = "bol" -> IF st.pos = 1 THEN <<st>> ELSE <<>>
    [] re.t = "eol" -> IF st.pos = Len(s) + 1 THEN <<st>> ELSE <<>>

NoMatch == [found |-> FALSE]

\* the match at the leftmost start position among lo..hi (searched by halves,
\* left half first)
RECURSIVE ExecIn(_, _, _, _)
ExecIn(re, s, lo, hi) ==
  IF lo = hi
    THEN LET ms == M(re, s, StartState(lo))
         IN  IF ms = <<>> THEN NoMatch
             ELSE [found |-> TRUE, from |-> lo, to |-> ms[1].pos, cap |-> ms[1].cap]
    ELSE LET mid  == (lo + hi) \div 2
             left == ExecIn(re, s, lo, mid)
         IN  IF left.found THEN left ELSE ExecIn(re, s, mid + 1, hi)

\* str.match(re) without the g flag: the leftmost match, or NoMatch for null
match(str, re) == ExecIn(re, Chars(str), 1, Len(str) + 1)

\* re.test(str)
test(re, str) == match(str, re).found

\* m[0] and m[n] of a match of str
Whole(str, m) == SubSeq(str, m.from, m.to - 1)
Group(str, m, n) == SubSeq(str, m.cap[n][1], m.cap[n][2] - 1)
HasGroup(m, n) == m.cap[n] # NoGroup

\* str.replace(re, '') without the g flag
replaceFirst(str, re) ==
  LET m == match(str, re)
  IN  IF m.found THEN SubSeq(str, 1, m.from - 1) \o SubSeq(str, m.to, Len(str)) ELSE str

\* a.match(..) || b.match(..) || ...: the first pattern of the list that matches
RECURSIVE firstMatch(_, _)
firstMatch(str, res) ==
  IF res = <<>> THEN NoMatch
  ELSE LET m == match(str, Head(res))
       IN  IF m.found THEN m ELSE firstMatch(str, Tail(res))

(***************************************************************************)
(* Numbers                                                                 *)
(***************************************************************************)
\* Number.prototype.toString of a non-negative integer
RECURSIVE toString(_)
toString(n) == IF n < 10 THEN DigitChars[n + 1] ELSE toString(n \div 10) \o DigitChars[(n % 10) + 1]

\* the value of the longest prefix of cs made of digits, and how long it is
RECURSIVE DigitPrefix(_, _, _)
DigitPrefix(cs, acc, n) ==
  IF cs # <<>> /\ Head(cs) \in Digits
    THEN DigitPrefix(Tail(cs), 10 * acc + DigitVal(Head(cs)), n + 1)
    ELSE [val |-> acc, len |-> n]

NaN == [nan |-> TRUE, val |-> 0]

\* parseInt(str) with no radix: leading white space and a sign are skipped,
\* the longest prefix of digits is the value, and there is no value (NaN)
\* when no digit comes first.  (A "0x" prefix would switch to base 16: the
\* subjects here are the digit runs left by the callers, which hold no x.)
parseInt(str) ==
  LET cs   == Chars(trimStart(str))
      neg  == cs # <<>> /\ Head(cs) = "-"
      body == IF cs # <<>> /\ Head(cs) \in {"-", "+"} THEN Tail(cs) ELSE cs
      p    == DigitPrefix(body, 0, 0)
  IN  IF p.len = 0 THEN NaN
      ELSE [nan |-> FALSE, val |-> IF neg THEN 0 - p.val ELSE p.val]

abs(n) == IF n < 0 THEN 0 - n ELSE n

denominations == <<20000, 50000, 100000, 200000, 500000, 1000000>>

\* threshold = 0.15, in percent
thresholdPct == 15

\* the comparison made strict: an amount on the end of an interval stays
WithinThresholdStrict(num, den) ==
  LET diff == abs(num - den)
  IN  diff <= 2 * den /\ 100 * diff < thresholdPct * den

\* a tolerance of half the denomination, under which the intervals overlap
WithinThresholdWide(num, den) == 2 * abs(num - den) <= den

\* diff / den <= threshold.  den divides 10^6, so diff / den is 0.15 exactly
\* or differs from it by more than 10^-7: the double comparison is the
\* comparison of the exact quotients, 100 * diff <= 15 * den (asked only of a
\* diff below 2 * den, which keeps the product inside 32 bits).
WithinThreshold(num, den) ==
  LET diff == abs(num - den)
  IN  diff <= 2 * den /\ 100 * diff <= thresholdPct * den

RECURSIVE snapScan(_, _, _)
snapScan(value, num, dens) ==
  IF dens = <<>> THEN value
  ELSE IF WithinThreshold(num, Head(dens)) THEN toString(Head(dens))
       ELSE snapScan(value, num, Tail(dens))

snapToNearestPLN(value) ==
  LET num == parseInt(value)
  IN  IF num.nan THEN value ELSE snapScan(value, num.val, denominations)

\* (num / 100).toFixed(1).replace('.', ',') for the integer num >= 0.
\* num / 100 is the double nearest to the quotient, and toFixed rounds that
\* double: when the exact quotient lies halfway between two one-decimal
\* values (last digit of num is 5) the result follows the side on which the
\* double fell, which is the side of the remainder r of num * 2^k by 100, k
\* being the scaling that makes the quotient a 53-bit integer; a double that
\* is the quotient exactly (r = 0) is a true tie, which toFixed rounds up.
RECURSIVE Log2Floor(_, _)
Log2Floor(n, d) == IF n < 2 * d THEN 0 ELSE 1 + Log2Floor(n, 2 * d)

RECURSIVE Pow2Mod100(_)
Pow2Mod100(k) == IF k = 0 THEN 1 ELSE (2 * Pow2Mod100(k - 1)) % 100

DoubleAboveQuotient(num) ==
  LET k == IF num >= 100 THEN 52 - Log2Floor(num, 100) ELSE 52 + Log2Floor(100, num) + 1
      r == ((num % 100) * Pow2Mod100(k)) % 100
  IN  r = 0 \/ r > 50

\* the quotient cut after its first decimal instead of rounded
scaledKwhTruncated(num) ==
  toString((num \div 10) \div 10) \o "," \o toString((num \div 10) % 10)

scaledKwh(num) ==
  LET last   == num % 10
      tenths == IF last > 5 \/ (last = 5 /\ DoubleAboveQuotient(num))
                  THEN num \div 10 + 1 ELSE num \div 10
  IN  toString(tenths \div 10) \o "," \o toString(tenths % 10)

formatIndoMonth(monthStr) ==
  LET months == <<"JANUARI", "FEBRUARI", "MARET", "APRIL", "MEI", "JUNI",
                  "JULI", "AGUSTUS", "SEPTEMBER", "OKTOBER", "NOVEMBER", "DESEMBER">>
      n      == parseInt(monthStr)
  IN  IF ~n.nan /\ n.val - 1 >= 0 /\ n.val - 1 < 12 THEN months[n.val] ELSE monthStr

(***************************************************************************)
(* Value sanitizer                                                         *)
(***************************************************************************)
sep == Cls({":", ".", "-"})

\* a label list that also takes leading marks for noise
labelsToRemoveAndMarks == <<Cat(<<Bol, Plus(Cls({".", ",", "/"}))>>)>>

labelsToRemove ==
  << Cat(<<Bol, LitI("T"), ws>>),
     Cat(<<Bol, Grp(1, Alt(<<LitI("Nama"), LitI("Tarif/Daya"), LitI("Tarif Daya"),
                              LitI("Tarif"), LitI("Daya"), LitI("IDPEL"),
                              LitI("Nomor Pelanggan"), LitI("Nomor Meter"),
                              Cat(<<LitI("No."), Star(ws), LitI("Ref")>>),
                              LitI("No"), LitI("Ref"), LitI("Stroom"), LitI("Token")>>)),
           Star(ws), Opt(sep), Star(ws)>>),
     Cat(<<Bol, Grp(1, AltI(<<"Rp", "RP">>)), Opt(Cls({"."})), Star(ws)>>) >>

\* one pass through the list
RECURSIVE stripPass(_, _)
stripPass(clean, patterns) ==
  IF patterns = <<>> THEN clean
  ELSE stripPass(replaceFirst(clean, Head(patterns)), Tail(patterns))

\* a sanitizer that goes through the list again until nothing is removed
RECURSIVE stripLabelsRescanning(_, _)
stripLabelsRescanning(clean, patterns) ==
  IF stripPass(clean, patterns) = clean THEN clean
  ELSE stripLabelsRescanning(stripPass(clean, patterns), patterns)

RECURSIVE stripLabels(_, _)
stripLabels(clean, patterns) ==
  IF patterns = <<>> THEN clean
  ELSE stripLabels(replaceFirst(clean, Head(patterns)), Tail(patterns))

cleanValue(val) ==
  IF val = "" THEN ""
  ELSE trim(stripLabels(trim(NormalizeSpaces(val)), labelsToRemove))

(***************************************************************************)
(* Token-mode extractor                                                    *)
(***************************************************************************)
colon == Cls({":"})
\* \d{4}
d4 == Rep(digit, 4, 4)
\* \d{4}\s?\d{4}\s?\d{4}\s?\d{4}\s?\d{4}
token20 == Cat(<<d4, Opt(ws), d4, Opt(ws), d4, Opt(ws), d4, Opt(ws), d4>>)
\* Rp?  (an R, then an optional p)
rp == Cat(<<LitI("R"), Opt(Cls(BothCases("p")))>>)
\* \s*[:]?\s*Rp?[\s.]*([\d,.]+)
amountTail == <<Star(ws), Opt(colon), Star(ws), rp, Star(Cls(WS \cup {"."})), Grp(1, Plus(numChar))>>
\* \s*Rp?([\d,.]+)
plainAmountTail == <<Star(ws), rp, Grp(1, Plus(numChar))>>

tokenPatterns ==
  << Cat(<<LitI("Stroom/Nomor Token"), Star(ws), Grp(1, token20)>>),
     Cat(<<LitI("TOKEN"), Star(ws), colon, Star(ws), Grp(1, token20)>>),
     Grp(1, Cat(<<d4, ws, d4, ws, d4, ws, d4, ws, d4>>)) >>

plnIdpelPatterns ==
  << Cat(<<LitI("Nomor Pelanggan"), Star(ws), Grp(1, Rep(digit, 11, 12))>>),
     Cat(<<LitI("IDPEL"), Star(ws), colon, Star(ws), Grp(1, Rep(digit, 11, 12))>>),
     Cat(<<LitI("ID"), Star(ws), LitI("PEL"), Star(ws), colon, Star(ws),
           Grp(1, Rep(digit, 11, 12))>>) >>

plnNamaLabelPattern ==
  Cat(<<LitI("Nama"), Star(ws), Opt(colon), Star(ws), Grp(1, LazyPlus(NotCls(LineEnds))),
        Look(Cat(<<Star(ws),
                   Alt(<<LitI("Tarif/Daya"), LitI("Tarif Daya"), LitI("IDPEL"), LitI("Nomor"),
                         LitI("Stroom"), LitI("Total"),
                         Cat(<<LitI("No."), Star(ws), LitI("Pesanan")>>),
                         Cat(<<LitI("No."), Star(ws), LitI("Meter")>>),
                         Eol>>)>>))>>)

\* (R[\d\w]+\s*\/[\s\d.]+\s*VA)
tarifShapePattern ==
  Grp(1, Cat(<<LitI("R"), Plus(Cls(WordChars)), Star(ws), Cls({"/"}),
               Plus(Cls(WS \cup Digits \cup {"."})), Star(ws), LitI("VA")>>))

tarifLabels == <<"Tarif/Daya", "Tarif Daya", "Tarif", "Daya">>

\* \b(?:Tarif\/Daya|Tarif Daya|Tarif|Daya)\s*[:]?\s*([A-Z0-9\/\s.-]+)
tarifLabelPattern ==
  Cat(<<WordB, AltI(tarifLabels), Star(ws), Opt(colon), Star(ws),
        Grp(1, Plus(Cls(Letters \cup Digits \cup WS \cup {"/", ".", "-"})))>>)

\* ^(Tarif\/Daya|Tarif Daya|Tarif|Daya)\s*
tarifRestatedLabel == Cat(<<Bol, Grp(1, AltI(tarifLabels)), Star(ws)>>)

\* \s(No|Ref|Nomor|Jam).*$
tarifGarbage == Cat(<<ws, Grp(1, AltI(<<"No", "Ref", "Nomor", "Jam">>)), Star(AnyChar), Eol>>)

includes(str, part) == test(Lit(part), str)

kwhPatterns ==
  << Cat(<<AltI(<<"Jumlah", "Jml", "Total">>), Star(ws),
           Alt(<<Cat(<<LitI("K"), Star(ws), LitI("W"), Star(ws), LitI("H")>>),
                 LitI("KWH"), LitI("KwH")>>),
           Star(ws), Opt(Cls({":", "."})), Star(ws), Grp(1, Plus(numChar))>>),
     Cat(<<Grp(1, Plus(numChar)), Star(ws),
           Alt(<<Cat(<<LitI("k"), Star(ws), LitI("w"), Star(ws), LitI("h")>>), LitI("kwh")>>)>>) >>

nominalPatterns ==
  << Cat(<<AltI(<<"Rp Stroom/Token", "Stroom/Token", "Nilai Token">>)>> \o amountTail),
     Cat(<<LitI("NOMINAL"), Star(ws), colon, Star(ws), rp, Star(Cls(WS \cup {"."})),
           Grp(1, Plus(numChar))>>) >>

\* \b(20000|50000|100000|200000|500000|1000000)\b
bareDenomination ==
  Cat(<<WordB,
        Grp(1, Alt(<<Lit("20000"), Lit("50000"), Lit("100000"), Lit("200000"),
                     Lit("500000"), Lit("1000000")>>)),
        WordB>>)

plnAdminPatterns ==
  << Cat(<<LitI("Biaya Admin")>> \o plainAmountTail),
     Cat(<<LitI("ADMIN"), Star(ws), colon>> \o plainAmountTail) >>

plnTotalPatterns ==
  << Cat(<<LitI("Total tagihan")>> \o plainAmountTail),
     Cat(<<LitI("TOTAL"), Star(ws), colon>> \o plainAmountTail) >>

\* Angsuran\s*Rp?([\d,.]+) and Materai\s*Rp?([\d,.]+), as the earlier
\* extractor of ocr.js looks for them
angsuranPattern == Cat(<<LitI("Angsuran")>> \o plainAmountTail)
materaiPattern == Cat(<<LitI("Materai")>> \o plainAmountTail)

ppnPattern == Cat(<<LitI("PPn")>> \o plainAmountTail)

\* m[1].trim().replace(/\./g, '').replace(/,/g, '')
stripSeparators(str) == RemoveChars(RemoveChars(trim(str), {"."}), {","})

\* text.replace(/[^0-9\s]/g, ' ')
blankNonDigits(text) ==
  Str([i \in 1..Len(text) |->
         IF SubSeq(text, i, i) \in Digits \cup WS THEN SubSeq(text, i, i) ELSE " "])

\* a token rule that tries the bare groups first and the labels after
plnTokenBareFirst(text) ==
  LET m == firstMatch(text, <<tokenPatterns[3], tokenPatterns[2], tokenPatterns[1]>>)
  IN  IF ~m.found THEN "" ELSE KeepChars(Group(text, m, 1), Digits)

plnToken(text) ==
  LET m == firstMatch(text, tokenPatterns)
  IN  IF ~m.found THEN ""
      ELSE IF HasGroup(m, 1) /\ Group(text, m, 1) # ""
             THEN KeepChars(Group(text, m, 1), Digits)
             ELSE KeepChars(Whole(text, m), Digits)

plnIdpel(text) ==
  LET m == firstMatch(text, plnIdpelPatterns)
  IN  IF m.found THEN Group(text, m, 1) ELSE ""

plnNama(text) ==
  LET m == match(text, plnNamaLabelPattern)
  IN  IF m.found THEN trim(Group(text, m, 1)) ELSE ""

\* m[1] ? m[1] : m[0]
captureOrWhole(str, m) ==
  IF HasGroup(m, 1) /\ Group(str, m, 1) # "" THEN Group(str, m, 1) ELSE Whole(str, m)

\* the VA suffix added to a value that holds a digit and no VA
tarifPolish(clean) ==
  trim(IF clean # "" /\ ~includes(toUpperCase(clean), "VA") /\ test(digit, clean)
         THEN clean \o " VA" ELSE clean)

\* the shape first, the label second; the capture with its spaces
\* normalized, a restated label and the trailing garbage removed
plnTarif(text) ==
  IF firstMatch(text, <<tarifShapePattern, tarifLabelPattern>>).found
    THEN tarifPolish(replaceFirst(replaceFirst(
           trim(NormalizeSpaces(captureOrWhole(text,
             firstMatch(text, <<tarifShapePattern, tarifLabelPattern>>)))),
           tarifRestatedLabel), tarifGarbage))
    ELSE ""

\* the energy-quantity rule on the captured value
formatKwhDigits(captured) ==
  LET val == KeepChars(trim(captured), Digits)
  IN  IF Len(val) = 2 THEN val \o ",0"
      ELSE IF Len(val) >= 3 THEN scaledKwh(parseInt(val).val)
      ELSE val

plnKwh(text) ==
  LET m == firstMatch(text, kwhPatterns)
  IN  IF m.found THEN formatKwhDigits(Group(text, m, 1)) ELSE ""

\* the labelled amount kept as captured, never snapped
plnNominalUnsnapped(text) ==
  LET m        == firstMatch(text, nominalPatterns)
      possible == match(blankNonDigits(text), bareDenomination)
  IN  IF m.found THEN stripSeparators(Group(text, m, 1))
      ELSE IF possible.found THEN Group(blankNonDigits(text), possible, 1)
      ELSE ""

plnNominal(text) ==
  LET m        == firstMatch(text, nominalPatterns)
      possible == match(blankNonDigits(text), bareDenomination)
  IN  IF m.found THEN snapToNearestPLN(stripSeparators(Group(text, m, 1)))
      ELSE IF possible.found THEN Group(blankNonDigits(text), possible, 1)
      ELSE ""

plnAdmin(text) ==
  LET m == firstMatch(text, plnAdminPatterns)
  IN  IF m.found THEN stripSeparators(Group(text, m, 1)) ELSE ""

plnTotal(text) ==
  LET m == firstMatch(text, plnTotalPatterns)
  IN  IF m.found THEN stripSeparators(Group(text, m, 1)) ELSE ""

\* the tax without its default: empty when the label is not found
plnPpnNoDefault(text) ==
  LET m == match(text, ppnPattern)
  IN  IF m.found THEN RemoveChars(trim(Group(text, m, 1)), {" "}) ELSE ""

plnPpn(text) ==
  LET m == match(text, ppnPattern)
  IN  IF m.found THEN RemoveChars(trim(Group(text, m, 1)), {" "}) ELSE "0"

\* the sanitizer applied to every field, the ones to leave out included
sanitizeEveryField(result, leftOut) ==
  [key \in DOMAIN result |-> cleanValue(result[key])]

\* the final sanitization: cleanValue on every key but the ones left out
sanitizeFields(result, leftOut) ==
  [key \in DOMAIN result |->
     IF key \in leftOut THEN result[key] ELSE cleanValue(result[key])]

parsePLNText(text) ==
  sanitizeFields(
    [ token     |-> plnToken(text),
      idpel     |-> plnIdpel(text),
      nama      |-> plnNama(text),
      tarif     |-> plnTarif(text),
      kwh       |-> plnKwh(text),
      nominal   |-> plnNominal(text),
      admin     |-> plnAdmin(text),
      total     |-> plnTotal(text),
      ppn       |-> plnPpn(text),
      angsmat   |-> "0,00/0,00",
      noPesanan |-> "",
      raw       |-> text ],
    {"raw"})

(***************************************************************************)
(* Payment-mode extractor                                                  *)
(***************************************************************************)
\* ([A-Z\s.]+) under the i flag
lokasiName == Grp(1, Plus(Cls(Letters \cup WS \cup {"."})))

lokasiPatterns ==
  << Cat(<<AltI(<<"PDAM", "PERUMDA", "TIRTA">>), Plus(ws), lokasiName>>),
     Cat(<<AltI(<<"KAB.", "KOTA">>), Plus(ws), lokasiName>>) >>

\* \s(No|Nomor|Pelanggan).*$
lokasiNoise == Cat(<<ws, Grp(1, AltI(<<"No", "Nomor", "Pelanggan">>)), Star(AnyChar), Eol>>)

\* \d{4}-\d{2}-\d{2}
isoDate == Cat(<<d4, Cls({"-"}), Rep(digit, 2, 2), Cls({"-"}), Rep(digit, 2, 2)>>)

\* the first element of text.split('\n').map(l => l.trim()) longer than 3,
\* or "" when there is none (no line that long is empty)
RECURSIVE firstLongLine(_, _)
firstLongLine(text, from) ==
  LET breaks == {i \in from..Len(text) : SubSeq(text, i, i) = "\n"}
      stop   == IF breaks = {} THEN Len(text) + 1
                ELSE CHOOSE i \in breaks : \A j \in breaks : i <= j
      line   == trim(SubSeq(text, from, stop - 1))
  IN  IF Len(line) > 3 THEN line
      ELSE IF stop > Len(text) THEN ""
      ELSE firstLongLine(text, stop + 1)

payLokasi(text) ==
  LET m     == firstMatch(text, lokasiPatterns)
      first == firstLongLine(text, 1)
  IN  IF m.found THEN trim(replaceFirst(trim(Whole(text, m)), lokasiNoise))
      ELSE IF first # "" /\ ~test(isoDate, first) THEN trim(replaceFirst(first, lokasiNoise))
      ELSE ""

\* (?:\bNama Pelanggan|\bNama|\bNAMA\b)\s*[:]?\s*([^\n\r]+)
payNamaLabelPattern ==
  Cat(<<Alt(<<Cat(<<WordB, LitI("Nama Pelanggan")>>), Cat(<<WordB, LitI("Nama")>>),
              Cat(<<WordB, LitI("NAMA"), WordB>>)>>),
        Star(ws), Opt(colon), Star(ws), Grp(1, Plus(NotCls(LineEnds)))>>)

fields == <<"NO.PEL", "NO. PEL", "ID PEL", "IDPEL", "NO SAMB", "NO.SAMB", "PERIODE",
            "ALAMAT", "TOTAL", "TAGIHAN">>

\* ^(?:Pelanggan|Plg|Nama)\s*[:.-]?\s*
namaLeadingNoise ==
  Cat(<<Bol, AltI(<<"Pelanggan", "Plg", "Nama">>), Star(ws), Opt(sep), Star(ws)>>)

\* the pruning loop over the field markers
RECURSIVE pruneAtFields(_, _)
pruneAtFields(clean, fs) ==
  IF fs = <<>> THEN clean
  ELSE LET m   == match(toUpperCase(clean), Lit(Head(fs)))
           cut == IF m.found /\ (m.from = 1 \/ SubSeq(clean, m.from - 1, m.from - 1) \in WS)
                    THEN trim(SubSeq(clean, 1, m.from - 1))
                    ELSE clean
       IN  pruneAtFields(cut, Tail(fs))

payNama(text) ==
  LET m == match(text, payNamaLabelPattern)
  IN  IF m.found
        THEN trim(replaceFirst(pruneAtFields(trim(Group(text, m, 1)), fields), namaLeadingNoise))
        ELSE ""

payIdpelPatterns ==
  << Cat(<<AltI(<<"Nomor", "No.", "ID">>), Star(ws),
           AltI(<<"Pelanggan", "Sambungan", "PEL", "SAMB">>), Star(ws),
           Opt(Cls({":", "."})), Star(ws), Grp(1, Plus(digit))>>),
     Grp(1, Rep(digit, 6, 12)) >>

payIdpel(text) ==
  LET m == firstMatch(text, payIdpelPatterns)
  IN  IF m.found THEN trim(Group(text, m, 1)) ELSE ""

periodeLabelPattern ==
  Cat(<<AltI(<<"Periode Tagihan", "Periode", "Bulan", "Thn.Bln", "Rekoning Bulan", "Rek.Bulan">>),
        Star(ws), Opt(colon), Star(ws), Grp(1, Plus(NotCls(LineEnds)))>>)

\* \s+(?:Meter|Lalu|Kini|Stanst|Stand|Total).*$
periodeNextField ==
  Cat(<<Plus(ws), AltI(<<"Meter", "Lalu", "Kini", "Stanst", "Stand", "Total">>),
        Star(AnyChar), Eol>>)

\* \s+Tagihan.*$
periodeTagihanSuffix == Cat(<<Plus(ws), LitI("Tagihan"), Star(AnyChar), Eol>>)

\* \s*(?:Tagihan|Meter|Lalu|Kini|Stanst|Stand).*$
periodeNoise ==
  Cat(<<Star(ws), AltI(<<"Tagihan", "Meter", "Lalu", "Kini", "Stanst", "Stand">>),
        Star(AnyChar), Eol>>)

indoMonths == <<"JAN", "FEB", "MAR", "APR", "MEI", "JUN", "JUL", "AGU", "SEP", "OKT", "NOV",
                "DES", "JANUARI", "FEBRUARI", "MARET", "APRIL", "MEI", "JUNI", "JULI",
                "AGUSTUS", "SEPTEMBER", "OKTOBER", "NOVEMBER", "DESEMBER">>

\* \b(indoMonths)[\s-]*(\d{2,4})
datePattern ==
  Cat(<<WordB, Grp(1, AltI(indoMonths)), Star(Cls(WS \cup {"-"})), Grp(2, Rep(digit, 2, 4))>>)

\* (0[1-9]|1[0-2])
monthCode ==
  Alt(<<Cat(<<Lit("0"), Cls(Digits \ {"0"})>>), Cat(<<Lit("1"), Cls({"0", "1", "2"})>>)>>)

\* (20\d{2})
yearCode == Cat(<<Lit("20"), Rep(digit, 2, 2)>>)

\* \b(0[1-9]|1[0-2])[\/-](20\d{2})\b
mmyyyyPattern == Cat(<<WordB, Grp(1, monthCode), Cls({"/", "-"}), Grp(2, yearCode), WordB>>)

\* \b(20\d{2})\s?(0[1-9]|1[0-2])\b
yyyymmPattern == Cat(<<WordB, Grp(1, yearCode), Opt(ws), Grp(2, monthCode), WordB>>)

\* a label tier that keeps whatever follows the label
periodeAcceptAny(raw) == raw

\* the value of a period label is kept when it holds four digits or three
\* letters and is shorter than 20 characters
periodeAccept(raw) ==
  IF (test(d4, raw) \/ test(Rep(Cls(Letters), 3, 3), raw)) /\ Len(raw) < 20 THEN raw ELSE ""

\* tier A: the value after a period label, "" when there is none or it is refused
periodeFromLabel(text) ==
  IF test(periodeLabelPattern, text)
    THEN periodeAccept(replaceFirst(replaceFirst(
           trim(Group(text, match(text, periodeLabelPattern), 1)), periodeNextField),
           periodeTagihanSuffix))
    ELSE ""

\* tier B: a month name and a year anywhere in the text
periodeFromMonthName(text) ==
  LET m == match(text, datePattern)
  IN  IF m.found THEN toUpperCase(Group(text, m, 1) \o " " \o Group(text, m, 2)) ELSE ""

\* tier C: MM/YYYY or MM-YYYY
periodeFromNumeric(text) ==
  LET m == match(text, mmyyyyPattern)
  IN  IF m.found THEN formatIndoMonth(Group(text, m, 1)) \o " " \o Group(text, m, 2) ELSE ""

\* YYYYMM (a blank allowed inside) becomes the month's name and the year
yyyymmToName(clean, m) ==
  IF m.found THEN formatIndoMonth(Group(clean, m, 2)) \o " " \o Group(clean, m, 1) ELSE clean

periodeUpper(clean) == toUpperCase(yyyymmToName(clean, match(clean, yyyymmPattern)))

\* the post-processing of a period that was found
normalizePeriode(periode) ==
  IF periode = "" THEN "" ELSE periodeUpper(trim(replaceFirst(periode, periodeNoise)))

\* (a || b) on strings
orElse(a, b) == IF a # "" THEN a ELSE b

payPeriode(text) ==
  normalizePeriode(orElse(orElse(periodeFromLabel(text), periodeFromMonthName(text)),
                          periodeFromNumeric(text)))

tagihanPattern == Cat(<<AltI(<<"Tagihan", "Jml Tagihan", "Total Air", "Biaya Air">>)>> \o amountTail)
payAdminPattern == Cat(<<AltI(<<"Biaya Admin", "Admin", "Adm">>)>> \o amountTail)
payTotalPattern == Cat(<<AltI(<<"Total Bayar", "Total">>)>> \o amountTail)

\* (?:No\.?|Nomor)\s*Pesanan\s*[:]?\s*([A-Z0-9]+)
noPesananPattern ==
  Cat(<<Alt(<<Cat(<<LitI("No"), Opt(Cls({"."}))>>), LitI("Nomor")>>), Star(ws),
        LitI("Pesanan"), Star(ws), Opt(colon), Star(ws), Grp(1, Plus(Cls(Letters \cup Digits)))>>)

\* the amount after a label, separators removed, "" when the label is not found
payAmount(text, pattern) ==
  LET m == match(text, pattern)
  IN  IF m.found THEN stripSeparators(Group(text, m, 1)) ELSE ""

payNoPesanan(text) ==
  LET m == match(text, noPesananPattern)
  IN  IF m.found THEN trim(Group(text, m, 1)) ELSE ""

\* only the first of the two rules: total takes tagihan, never the reverse
crossDefaultOneWay(result) ==
  IF result.total = "" /\ result.tagihan # ""
    THEN [result EXCEPT !.total = result.tagihan] ELSE result

\* if only one of tagihan and total was found, the other takes its value
crossDefault(result) ==
  LET r1 == IF result.total = "" /\ result.tagihan # ""
              THEN [result EXCEPT !.total = result.tagihan] ELSE result
  IN  IF r1.tagihan = "" /\ r1.total # "" THEN [r1 EXCEPT !.tagihan = r1.total] ELSE r1

parsePaymentText(text) ==
  sanitizeFields(
    crossDefault(
      [ mode      |-> "payment",
        lokasi    |-> payLokasi(text),
        nama      |-> payNama(text),
        idpel     |-> payIdpel(text),
        periode   |-> payPeriode(text),
        stand     |-> "",
        tagihan   |-> payAmount(text, tagihanPattern),
        admin     |-> payAmount(text, payAdminPattern),
        total     |-> payAmount(text, payTotalPattern),
        noPesanan |-> payNoPesanan(text),
        raw       |-> text ]),
    {"raw", "mode", "nama"})

(***************************************************************************)
(* Display and printing helpers                                            *)
(***************************************************************************)
\* str.replace(re, '$1' + ins) under the g flag, for an re that is all in its
\* group 1 and never matches the empty string: each match, left to right
\* from where the one before ended, is followed by ins
RECURSIVE appendAfterEach(_, _, _, _)
appendAfterMatch(str, re, ins, from, m) ==
  IF ~m.found THEN SubSeq(str, from, Len(str))
  ELSE SubSeq(str, from, m.from - 1) \o Group(str, m, 1) \o ins
         \o appendAfterEach(str, re, ins, m.to)

appendAfterEach(str, re, ins, from) ==
  appendAfterMatch(str, re, ins, from, ExecIn(re, Chars(str), from, Len(str) + 1))

\* str.replace(re, ins) under the g flag, for an re made of assertions only
\* (its matches are empty): ins goes in at every position where re holds
insertAtEach(str, re, ins) ==
  Str([i \in 1..(Len(str) + 1) |->
         (IF M(re, Chars(str), StartState(i)) # <<>> THEN ins ELSE "")
           \o (IF i <= Len(str) THEN SubSeq(str, i, i) ELSE "")])

tokenPlaceholder == "---- ---- ---- ---- ----"

\* formatToken of main.js
formatToken(token) ==
  IF token = "" THEN tokenPlaceholder
  ELSE trim(appendAfterEach(token, Grp(1, d4), " ", 1))

\* (\d{4})(\d{4})(\d{4})(\d{4})(\d{4})
fiveGroups == Cat(<<d4, d4, d4, d4, d4>>)

\* $1 $2 $3 $4 $5 for a match of fiveGroups that starts at from
spacedGroups(str, from) ==
  SubSeq(str, from, from + 3) \o " " \o SubSeq(str, from + 4, from + 7) \o " "
    \o SubSeq(str, from + 8, from + 11) \o " " \o SubSeq(str, from + 12, from + 15) \o " "
    \o SubSeq(str, from + 16, from + 19)

spaceFirstTwenty(token, m) ==
  IF m.found
    THEN SubSeq(token, 1, m.from - 1) \o spacedGroups(token, m.from)
           \o SubSeq(token, m.to, Len(token))
    ELSE token

\* formatToken of bluetooth.js
formatTokenBluetooth(token) ==
  IF token = "" THEN tokenPlaceholder ELSE spaceFirstTwenty(token, match(token, fiveGroups))

\* splitToken of the two printing modules, the same text in both
splitToken(token) ==
  IF token = "" \/ Len(token) # 20 THEN "---- ---- ---- ----\n---- ----"
  ELSE SubSeq(token, 1, 4) \o "-" \o SubSeq(token, 5, 8) \o "-" \o SubSeq(token, 9, 12) \o "\n"
         \o SubSeq(token, 13, 16) \o "-" \o SubSeq(token, 17, 20) \o "\n"

\* \B(?=(\d{3})+(?!\d))
thousandsBreak ==
  Cat(<<NotWordB, Look(Cat(<<Many(Grp(1, Rep(digit, 3, 3))), NotLook(digit)>>))>>)

\* formatRp of main.js as it stands with the modes
formatRp(num) == IF num = "" THEN "0" ELSE insertAtEach(num, thousandsBreak, ".")

\* formatRp of the main.js without the modes
formatRpCents(num) ==
  IF num = "" THEN "0,00" ELSE insertAtEach(num, thousandsBreak, ".") \o ",00"

\* formatNumber of the printing module
formatNumber(num) == IF num = "" THEN "0" ELSE insertAtEach(num, thousandsBreak, ".")

(***************************************************************************)
(* JavaScript values that cross the collaborator boundary                  *)
(***************************************************************************)
JSNull == [type |-> "null"]
JSUndefined == [type |-> "undefined"]
JSBool(b) == [type |-> "boolean", bool |-> b]
JSNumber(n) == [type |-> "number", nan |-> FALSE, num |-> n]
JSNaN == [type |-> "number", nan |-> TRUE, num |-> 0]
JSString(str) == [type |-> "string", str |-> str]
\* an object is its own properties, by name
JSObject(props) == [type |-> "object", props |-> props]
\* an array (only its own named properties matter here, it has no elements)
JSArray == [type |-> "array", props |-> <<>>]

IsObject(v) == v.type \in {"object", "array"}

\* ToBoolean
Truthy(v) ==
  CASE v.type \in {"null", "undefined"} -> FALSE
    [] v.type = "boolean" -> v.bool
    [] v.type = "number" -> ~v.nan /\ v.num # 0
    [] v.type = "string" -> v.str # ""
    [] OTHER -> TRUE

HasProp(v, key) == IsObject(v) /\ key \in DOMAIN v.props

\* v[key] = x on an object
SetProp(v, key, x) == [v EXCEPT !.props = (key :> x) @@ @]

\* (v[key] || dflt) for a property that holds a string when it is there
PropOr(v, key, dflt) ==
  IF HasProp(v, key) /\ v.props[key] # "" THEN v.props[key] ELSE dflt

(***************************************************************************)
(* AI collaborator                                                         *)
(***************************************************************************)
\* str.replace(/lit/g, ''): every occurrence found left to right, without
\* looking again at what the removals leave behind
RECURSIVE removeAll(_, _)
removeAll(str, lit) ==
  LET m == match(str, Lit(lit))
  IN  IF ~m.found THEN str
      ELSE SubSeq(str, 1, m.from - 1) \o removeAll(SubSeq(str, m.to, Len(str)), lit)

quote == Cls({"\""})
plainString == Star(NotCls({"\"", "\\"}))

\* one "name": "value" member at the start of the subject
jsonMember ==
  Cat(<<Bol, Star(ws), quote, Grp(1, plainString), quote, Star(ws), colon, Star(ws),
        quote, Grp(2, plainString), quote, Star(ws)>>)

\* the members of an object after its opening brace: the properties, or a
\* syntax error.  A name given twice keeps its last value.
RECURSIVE jsonMembers(_)
membersAfter(str, m, rest) ==
  IF ~m.found THEN [ok |-> FALSE]
  ELSE IF rest = "}" THEN [ok |-> TRUE, props |-> Group(str, m, 1) :> Group(str, m, 2)]
  ELSE IF rest # "" /\ SubSeq(rest, 1, 1) = "," /\ jsonMembers(SubSeq(rest, 2, Len(rest))).ok
         THEN [ok |-> TRUE,
               props |-> jsonMembers(SubSeq(rest, 2, Len(rest))).props
                           @@ (Group(str, m, 1) :> Group(str, m, 2))]
  ELSE [ok |-> FALSE]

membersFrom(str, m) == membersAfter(str, m, SubSeq(str, m.to, Len(str)))

jsonMembers(str) == membersFrom(str, match(str, jsonMember))

jsonInteger ==
  Cat(<<Bol, Opt(Cls({"-"})), Alt(<<Lit("0"), Cat(<<Cls(Digits \ {"0"}), Star(digit)>>)>>), Eol>>)

SyntaxError == [ok |-> FALSE]
Parsed(v) == [ok |-> TRUE, value |-> v]

objectOf(ms) == IF ms.ok THEN Parsed(JSObject(ms.props)) ELSE SyntaxError

\* JSON.parse of a text without surrounding blanks
parseTrimmed(t) ==
  CASE t = "null" -> Parsed(JSNull)
    [] t = "true" -> Parsed(JSBool(TRUE))
    [] t = "false" -> Parsed(JSBool(FALSE))
    [] test(jsonInteger, t) -> Parsed(JSNumber(parseInt(t).val))
    [] test(Cat(<<Bol, quote, plainString, quote, Eol>>), t) ->
         Parsed(JSString(SubSeq(t, 2, Len(t) - 1)))
    [] test(Cat(<<Bol, Lit("["), Star(ws), Lit("]"), Eol>>), t) -> Parsed(JSArray)
    [] test(Cat(<<Bol, Lit("{"), Star(ws), Lit("}"), Eol>>), t) -> Parsed(JSObject(<<>>))
    [] t # "" /\ SubSeq(t, 1, 1) = "{" -> objectOf(jsonMembers(SubSeq(t, 2, Len(t))))
    [] OTHER -> SyntaxError

\* JSON.parse on the documents an answer is drawn from: the literals, the
\* integers, the strings without escapes, the empty array and the objects
\* whose members are such strings; anything else here is a syntax error
JSONparse(str) == parseTrimmed(trim(str))

\* what the HTTP exchange with the model can come to:
\*   fetch rejects; a response that is not ok; a response whose body is not
\*   JSON; a body without candidates; a body with the text of a candidate
FetchRejects == [fetch |-> "rejects"]
NotOk == [fetch |-> "response", ok |-> FALSE]
BodyNotJson == [fetch |-> "response", ok |-> TRUE, json |-> FALSE]
NoCandidates == [fetch |-> "response", ok |-> TRUE, json |-> TRUE, candidates |-> <<>>]
Candidate(resultText) ==
  [fetch |-> "response", ok |-> TRUE, json |-> TRUE, candidates |-> <<resultText>>]

Returns(v) == [kind |-> "returns", value |-> v]
Throws(e) == [kind |-> "throws", error |-> e]

\* the grave accent has no place in a TLA+ string: texts here write it as ^
\* (a character the answers do not otherwise hold)
graveAccent == "^"
\* the three grave accents of a markdown code fence
fence == graveAccent \o graveAccent \o graveAccent

\* the try block of parseWithGemini and of parseWithGeminiVision: any throw
\* inside it is caught and null is returned
\* return JSON.parse(cleanJson), or null from the catch block
parsedOrNull(parsed) == IF parsed.ok THEN Returns(parsed.value) ELSE Returns(JSNull)

geminiExchange(reply) ==
  IF reply.fetch = "rejects" THEN Returns(JSNull)
  ELSE IF ~reply.ok THEN Returns(JSNull)
  ELSE IF ~reply.json THEN Returns(JSNull)
  ELSE IF reply.candidates = <<>> THEN Returns(JSNull)
  ELSE parsedOrNull(JSONparse(trim(removeAll(removeAll(reply.candidates[1], fence \o "json"),
                                             fence))))

parseWithGemini(rawText, reply) == geminiExchange(reply)

\* a colon, the shortest run of characters (captured), a semicolon
mimePattern == Cat(<<Lit(":"), Grp(1, LazyStar(AnyChar)), Lit(";")>>)

\* base64Data.split(','): the part before the first comma (all of it when
\* there is none)
splitPrefix(base64Data) ==
  LET m == match(base64Data, Lit(","))
  IN  IF m.found THEN SubSeq(base64Data, 1, m.from - 1) ELSE base64Data

\* the statements of parseWithGeminiVision ahead of its try block run
\* unprotected: prefix.match(..)[1] on a prefix without ":...;" indexes null
parseWithGeminiVision(base64Data, reply) ==
  LET prefix == splitPrefix(base64Data)
  IN  IF prefix # "" /\ ~test(mimePattern, prefix) THEN Throws("TypeError")
      ELSE geminiExchange(reply)

(***************************************************************************)
(* The application: state of main.js and of one processImage call          *)
(***************************************************************************)
VARIABLES
  appMode,             \* main.js: let appMode
  currentReceiptData,  \* main.js: let currentReceiptData
  customAdmin,         \* localStorage customAdmin, as showResult reads it
  calls,               \* how many files have been submitted so far
  view,                \* which section is shown: "scanner" or "result"
  status,              \* the status line or toast of the last call
  storeName,           \* localStorage storeName, as the print handler reads it
  printed,             \* what was last handed to printViaRawBT
  jobs,                \* the processImage calls of overlapping submissions
  pc,                  \* where the processImage call stands
  isPdf,               \* processImage's isPdf
  startMode,           \* appMode when the call started
  mode,                \* processReceipt's mode parameter
  recognized,          \* worker.recognize: "pending", "ok" or "failed"
  text,                \* the recognized text
  aiResult,            \* const aiResult
  error,               \* the error caught by processReceipt's catch
  outcome,             \* how the promise of processPdf / processReceipt settled
  aiCalls,             \* calls of parseWithGemini in this call
  plnRuns,             \* runs of parsePLNText in this call
  payRuns,             \* runs of parsePaymentText in this call
  terminations,        \* calls of worker.terminate in this call
  extracted,           \* the extractors' records for the OCR texts
  answered,            \* parseWithGemini's results for the texts and replies
  arg,                 \* the argument of the function under study
  ret                  \* its result

appVars == <<appMode, currentReceiptData, customAdmin, calls, view, status, storeName, printed,
             jobs>>
callVars == <<pc, isPdf, startMode, mode, recognized, text, aiResult, error, outcome,
              aiCalls, plnRuns, payRuns, terminations>>
fnVars == <<extracted, answered, arg, ret>>
vars == <<appVars, callVars, fnVars>>

Pending == [kind |-> "pending"]
Resolved(v) == [kind |-> "resolved", value |-> v]
Rejected(e) == [kind |-> "rejected", error |-> e]

NotCalled == [done |-> FALSE]
Result(v) == [done |-> TRUE, value |-> v]

\* files submitted in one run of the application
MaxCalls == 1

\* parseInt(localStorage.getItem('customAdmin') || '3000') with nothing stored
defaultAdmin == 3000

\* localStorage.getItem('storeName') || 'SA CELL' with nothing stored
defaultStoreName == "SA CELL"

Modes == {"token", "tagihan-pln", "payment"}

\* texts the OCR engine may hand back
OcrTexts ==
  { "",
    "Nomor Pelanggan 530123456789\nNama: BUDI SANTOSO\nR1M/900 VA\nJumlah KWH 3530\nStroom/Token Rp42000\nBiaya Admin Rp2500",
    "Rp  Stroom/Token : Rp 73.000 \nTOKEN: 1234 5678 9012 3456 7890",
    "T 1111 2222 3333 4444 5555\n\n beli 50000  ",
    "PDAM KOTA PADANG\nNama : SITI\nTagihan Rp50.000",
    "Rp. Total Bayar : Rp 52.500\t\nPeriode: 202512",
    "No struk  77\n" }

\* answers the language model may give as the text of its first candidate
AiAnswers ==
  { "{\"token\":\"12345678901234567890\",\"nominal\":\"20000\",\"admin\":\"2500\"}",
    fence \o "json\n{\"token\":\"\",\"tagihan\":\"50000\",\"raw\":\"Rp  x\"}\n" \o fence,
    "{}", "[]", "null", "0", "7", "false", "true", "\"\"", "\"ok\"",
    "Maaf, saya tidak bisa" }

\* the extractors are functions of the text alone: their records for the OCR
\* texts are worked out once and looked up by the steps that call them
ExtractorTable ==
  [t \in OcrTexts |-> [token |-> parsePLNText(t), payment |-> parsePaymentText(t)]]

AiReplies == {FetchRejects, NotOk, BodyNotJson, NoCandidates} \cup {Candidate(a) : a \in AiAnswers}

\* likewise the collaborator's results, a function of the text and the reply
AnswerTable == [t \in OcrTexts |-> [reply \in AiReplies |-> parseWithGemini(t, reply)]]

CallIdle ==
  /\ pc = "idle"
  /\ isPdf = FALSE
  /\ startMode = "token"
  /\ mode = "token"
  /\ recognized = "pending"
  /\ text = ""
  /\ aiResult = JSUndefined
  /\ error = ""
  /\ outcome = Pending
  /\ aiCalls = 0
  /\ plnRuns = 0
  /\ payRuns = 0
  /\ terminations = 0

AppInit ==
  /\ appMode = "token"
  /\ currentReceiptData = JSNull
  /\ customAdmin = defaultAdmin
  /\ calls = 0
  /\ view = "scanner"
  /\ status = ""
  /\ storeName = defaultStoreName
  /\ printed = JSUndefined
  /\ jobs = <<>>

Init ==
  /\ AppInit
  /\ CallIdle
  /\ extracted = ExtractorTable
  /\ answered = AnswerTable
  /\ arg = ""
  /\ ret = NotCalled

\* setMode(mode)
setMode(m) ==
  /\ appMode' = m
  /\ UNCHANGED <<currentReceiptData, customAdmin, calls, view, status, storeName, printed, jobs,
                 callVars, fnVars>>

\* processImage(source, isPdf) up to its first await
processImage(pdf) ==
  /\ pc = "idle"
  /\ calls < MaxCalls
  /\ calls' = calls + 1
  /\ status' = "processing"
  /\ isPdf' = pdf
  /\ startMode' = appMode
  \* processReceipt(source, appMode); processPdf takes the source alone
  /\ mode' = appMode
  /\ pc' = IF pdf THEN "processPdf" ELSE "createWorker"
  /\ recognized' = "pending"
  /\ text' = ""
  /\ aiResult' = JSUndefined
  /\ error' = ""
  /\ outcome' = Pending
  /\ aiCalls' = 0
  /\ plnRuns' = 0
  /\ payRuns' = 0
  /\ terminations' = 0
  /\ UNCHANGED <<appMode, currentReceiptData, customAdmin, view, storeName, printed, jobs,
                 fnVars>>

\* processPdf(pdfDataUrl): the library may be missing, loading or rendering
\* may fail; otherwise processReceipt(imageData) with the default mode
processPdf ==
  /\ pc = "processPdf"
  /\ \E r \in {"no library", "fails", "rendered"} :
       IF r = "rendered"
         THEN /\ mode' = "token"
              /\ pc' = "createWorker"
              /\ UNCHANGED outcome
         ELSE /\ outcome' = Rejected(IF r = "fails" THEN "PdfError" ELSE "NoPdfLibrary")
              /\ pc' = "settled"
              /\ UNCHANGED mode
  /\ UNCHANGED <<appVars, isPdf, startMode, recognized, text, aiResult, error,
                 aiCalls, plnRuns, payRuns, terminations, fnVars>>

\* processReceipt: await createWorker('ind'), ahead of the try block
createWorker ==
  /\ pc = "createWorker"
  /\ \E ok \in BOOLEAN :
       IF ok THEN pc' = "recognize" /\ UNCHANGED outcome
             ELSE pc' = "settled" /\ outcome' = Rejected("WorkerError")
  /\ UNCHANGED <<appVars, isPdf, startMode, mode, recognized, text, aiResult, error,
                 aiCalls, plnRuns, payRuns, terminations, fnVars>>

\* await worker.recognize(imageSource)
recognize ==
  /\ pc = "recognize"
  /\ \/ \E t \in OcrTexts :
          /\ recognized' = "ok"
          /\ text' = t
          /\ pc' = "terminate"
          /\ UNCHANGED error
     \/ /\ recognized' = "failed"
        /\ error' = "OcrError"
        /\ pc' = "catch"
        /\ UNCHANGED text
  /\ UNCHANGED <<appVars, isPdf, startMode, mode, aiResult, outcome,
                 aiCalls, plnRuns, payRuns, terminations, fnVars>>

\* await worker.terminate() after the recognition
terminate ==
  /\ pc = "terminate"
  /\ terminations' = terminations + 1
  /\ pc' = "parse"
  /\ UNCHANGED <<appVars, isPdf, startMode, mode, recognized, text, aiResult, error,
                 outcome, aiCalls, plnRuns, payRuns, fnVars>>

\* if (mode === 'payment') return parsePaymentText(text); else the call of
\* parseWithGemini(text)
parse ==
  /\ pc = "parse"
  /\ IF mode = "payment"
       THEN /\ payRuns' = payRuns + 1
            /\ outcome' = Resolved(JSObject(extracted[text].payment))
            /\ pc' = "settled"
            /\ UNCHANGED aiCalls
       ELSE /\ aiCalls' = aiCalls + 1
            /\ pc' = "gemini"
            /\ UNCHANGED <<payRuns, outcome>>
  /\ UNCHANGED <<appVars, isPdf, startMode, mode, recognized, text, aiResult, error,
                 plnRuns, terminations, fnVars>>

\* the collaborator asked a second time when its first answer is null
geminiRetries ==
  /\ pc = "gemini"
  /\ \E reply \in AiReplies :
       LET r == answered[text][reply]
       IN  IF r.kind = "returns" /\ r.value = JSNull /\ aiCalls < 2
             THEN aiCalls' = aiCalls + 1 /\ pc' = "gemini" /\ UNCHANGED <<aiResult, error>>
           ELSE IF r.kind = "returns"
             THEN aiResult' = r.value /\ pc' = "aiResult" /\ UNCHANGED <<error, aiCalls>>
             ELSE error' = r.error /\ pc' = "catch" /\ UNCHANGED <<aiResult, aiCalls>>
  /\ UNCHANGED <<appVars, isPdf, startMode, mode, recognized, text, outcome,
                 plnRuns, payRuns, terminations, fnVars>>

\* const aiResult = await parseWithGemini(text)
gemini ==
  /\ pc = "gemini"
  /\ \E reply \in AiReplies :
       LET r == answered[text][reply]
       IN  IF r.kind = "returns"
             THEN aiResult' = r.value /\ pc' = "aiResult" /\ UNCHANGED error
             ELSE error' = r.error /\ pc' = "catch" /\ UNCHANGED aiResult
  /\ UNCHANGED <<appVars, isPdf, startMode, mode, recognized, text, outcome,
                 aiCalls, plnRuns, payRuns, terminations, fnVars>>

\* whatever the collaborator returned is returned, without the fallback
handleAiResultNoFallback ==
  /\ pc = "aiResult"
  /\ outcome' = Resolved(aiResult)
  /\ pc' = "settled"
  /\ UNCHANGED <<appVars, isPdf, startMode, mode, recognized, text, aiResult, error,
                 aiCalls, plnRuns, payRuns, terminations, fnVars>>

\* if (aiResult) { aiResult.raw = text; return aiResult } else return
\* parsePLNText(text).  The module is strict code: the assignment to a
\* property of a primitive throws a TypeError
handleAiResult ==
  /\ pc = "aiResult"
  /\ IF Truthy(aiResult)
       THEN IF IsObject(aiResult)
              THEN /\ outcome' = Resolved(SetProp(aiResult, "raw", text))
                   /\ pc' = "settled"
                   /\ UNCHANGED <<error, plnRuns>>
              ELSE /\ error' = "TypeError"
                   /\ pc' = "catch"
                   /\ UNCHANGED <<outcome, plnRuns>>
       ELSE /\ plnRuns' = plnRuns + 1
            /\ outcome' = Resolved(JSObject(extracted[text].token))
            /\ pc' = "settled"
            /\ UNCHANGED error
  /\ UNCHANGED <<appVars, isPdf, startMode, mode, recognized, text, aiResult,
                 aiCalls, payRuns, terminations, fnVars>>

\* the error swallowed: the call resolves with null
catchSwallows ==
  /\ pc = "catch"
  /\ terminations' = terminations + 1
  /\ outcome' = Resolved(JSNull)
  /\ pc' = "settled"
  /\ UNCHANGED <<appVars, isPdf, startMode, mode, recognized, text, aiResult, error,
                 aiCalls, plnRuns, payRuns, fnVars>>

\* catch (error) { await worker.terminate(); throw error }, the second
\* terminate taken to succeed like the first
catch ==
  /\ pc = "catch"
  /\ terminations' = terminations + 1
  /\ outcome' = Rejected(error)
  /\ pc' = "settled"
  /\ UNCHANGED <<appVars, isPdf, startMode, mode, recognized, text, aiResult, error,
                 aiCalls, plnRuns, payRuns, fnVars>>

\* showResult(data): the fee and the total are written into the record, which
\* becomes the held one
showResult(data) ==
  LET base      == parseInt(IF appMode = "token" THEN PropOr(data, "nominal", "0")
                                                 ELSE PropOr(data, "tagihan", "0"))
      total     == IF base.nan THEN JSNaN ELSE JSNumber(base.val + customAdmin)
      withAdmin == SetProp(data, "admin", JSNumber(customAdmin))
  IN  /\ currentReceiptData' = SetProp(withAdmin, "total", total)
      /\ view' = "result"

\* processImage after its await: the acceptance checks and showResult, or the
\* toast of the catch block
processImageResume ==
  /\ pc = "settled"
  /\ IF outcome.kind = "rejected"
       THEN /\ status' = "failed"
            /\ UNCHANGED <<currentReceiptData, view>>
       ELSE LET data == outcome.value
            IN  IF appMode = "token" /\ PropOr(data, "token", "") = ""
                  THEN /\ status' = "token not found"
                       /\ UNCHANGED <<currentReceiptData, view>>
                ELSE IF appMode = "payment" /\ PropOr(data, "tagihan", "") = ""
                           /\ PropOr(data, "total", "") = ""
                  THEN /\ status' = "not a payment receipt"
                       /\ UNCHANGED <<currentReceiptData, view>>
                ELSE /\ showResult(data)
                     /\ UNCHANGED status
  /\ pc' = "idle"
  /\ UNCHANGED <<storeName, printed, jobs>>
  /\ UNCHANGED <<appMode, customAdmin, calls, isPdf, startMode, mode, recognized, text, aiResult,
                 error, outcome, aiCalls, plnRuns, payRuns, terminations, fnVars>>

Next ==
  \/ \E m \in Modes : setMode(m)
  \/ \E pdf \in BOOLEAN : processImage(pdf)
  \/ processPdf
  \/ createWorker
  \/ recognize
  \/ terminate
  \/ parse
  \/ gemini
  \/ handleAiResult
  \/ catch
  \/ processImageResume

Spec == Init /\ [][Next]_vars

(***************************************************************************)
(* The functions on their own: each specification below draws an argument  *)
(* and applies one function to it, the application standing idle.          *)
(***************************************************************************)
FnInit == AppInit /\ CallIdle /\ extracted = <<>> /\ answered = <<>> /\ ret = NotCalled

Apply(v) ==
  /\ ret = NotCalled
  /\ ret' = Result(v)
  /\ UNCHANGED <<appVars, callVars, extracted, answered, arg>>

\* how far around each boundary of a tolerance interval the amounts are taken
MaxDelta == 2

Around(n) == {n + k : k \in (0 - MaxDelta)..MaxDelta}

\* amounts at and around each denomination and the two ends of its interval
SnapAmounts ==
  {0, 18500, 42000, 73000, 30000}
    \cup UNION {Around(denominations[i]) \cup Around((denominations[i] * 85) \div 100)
                  \cup Around((denominations[i] * 115) \div 100) : i \in 1..Len(denominations)}

\* the amounts as digit strings, bare and dressed the way captured text can be
SnapInputs ==
  {"", "abc", ",", "-", "Rp5"}
    \cup UNION {{toString(n), "0" \o toString(n), " " \o toString(n), "-" \o toString(n),
                 toString(n) \o "x"} : n \in SnapAmounts}

SnapInit == FnInit /\ arg \in SnapInputs

snapCall == Apply(snapToNearestPLN(arg))

SnapNext == snapCall

SpecSnap == SnapInit /\ [][SnapNext]_vars

\* a text made of the parts that are not empty, one per line
RECURSIVE Lines(_)
Lines(parts) ==
  IF parts = <<>> THEN ""
  ELSE LET rest == Lines(Tail(parts))
       IN  IF Head(parts) = "" THEN rest
           ELSE IF rest = "" THEN Head(parts)
           ELSE Head(parts) \o "\n" \o rest

TokenHeaders == {"", "Nomor Pelanggan 530123456789\nNama: BUDI SANTOSO"}
TokenFooters == {"", "Biaya Admin Rp2500\nTotal tagihan Rp44.500"}
NominalLabels == {"Rp Stroom/Token Rp", "Stroom/Token : Rp ", "Nilai Token R", "NOMINAL: Rp."}
NominalAmounts ==
  {"42000", "73000", "18500", "17000", "16.999", "50.000", "1,150,000", "1150001", "020000", ","}
NominalLines ==
  {"", "beli 50000 ya", "x100000y 7", "pulsa 1200000", "Stroom/Token 20000"}
    \cup {l \o a : l \in NominalLabels, a \in NominalAmounts}

\* the receipt of the end-to-end scenario: its six parts one per line in the
\* order given, the same with the name ahead of the customer number (the
\* name then ends at a label), and all six on one line
ScenarioTexts ==
  { "Nomor Pelanggan 530123456789\nNama: BUDI SANTOSO\nR1M/900 VA\nJumlah KWH 3530\nStroom/Token Rp42000\nBiaya Admin Rp2500",
    "Nama: BUDI SANTOSO\nNomor Pelanggan 530123456789\nR1M/900 VA\nJumlah KWH 3530\nStroom/Token Rp42000\nBiaya Admin Rp2500",
    "Nomor Pelanggan 530123456789 Nama: BUDI SANTOSO R1M/900 VA Jumlah KWH 3530 Stroom/Token Rp42000 Biaya Admin Rp2500" }

\* receipts with an installment line, a stamp-duty line, both or neither
AngsuranLines == {"", "Angsuran Rp1.000", "Angsuran 0,00"}
MateraiLines == {"", "Materai Rp3.000", "MATERAI  Rp 10.000", "Materai 0,00"}
AngsmatTexts ==
  {Lines(<<h, a, m>>) : h \in {"", "Stroom/Token Rp20000"}, a \in AngsuranLines, m \in MateraiLines}

TokenTexts ==
  {Lines(<<h, n, f>>) : h \in TokenHeaders, n \in NominalLines, f \in TokenFooters}
    \cup ScenarioTexts \cup AngsmatTexts

TokenInit == FnInit /\ arg \in TokenTexts

parsePLNTextCall == Apply(parsePLNText(arg))

TokenNext == parsePLNTextCall

SpecToken == TokenInit /\ [][TokenNext]_vars

PaymentHeaders == {"", "PDAM KOTA PADANG\nNama : SITI"}
TagihanLines ==
  {"", "Tagihan Rp50.000", "Tagihan : Rp 12.500", "Jml Tagihan Rp 7,500", "Total Air Rp1000",
   "Tagihan Rp ,", "Tagihan 50000"}
AdminLines == {"", "Admin Rp 2.500"}
TotalLines == {"", "Total Bayar : Rp 52.500", "Total Rp60000", "TOTAL: 5000", "Total Rp ."}

PaymentTexts ==
  {Lines(<<h, t, a, g>>) : h \in PaymentHeaders, t \in TagihanLines, a \in AdminLines,
                           g \in TotalLines}

PaymentInit == FnInit /\ arg \in PaymentTexts

parsePaymentTextCall == Apply(parsePaymentText(arg))

PaymentNext == parsePaymentTextCall

SpecPayment == PaymentInit /\ [][PaymentNext]_vars

\* what the vision parser may be handed as base64Data
DataUrls ==
  { "data:image/png;base64,iVBORw0KGgo=", "data:image/jpeg;base64,/9j/4AAQ",
    "iVBORw0KGgo=", "image/png,iVBORw0KGgo=", "data:image/png,iVBORw0KGgo=",
    ",iVBORw0KGgo=", "" }

AiInit ==
  /\ FnInit
  /\ arg \in [fn : {"parseWithGemini"}, input : OcrTexts, reply : AiReplies]
             \cup [fn : {"parseWithGeminiVision"}, input : DataUrls, reply : AiReplies]

parseWithGeminiCall ==
  /\ arg.fn = "parseWithGemini"
  /\ Apply(parseWithGemini(arg.input, arg.reply))

parseWithGeminiVisionCall ==
  /\ arg.fn = "parseWithGeminiVision"
  /\ Apply(parseWithGeminiVision(arg.input, arg.reply))

AiNext == parseWithGeminiCall \/ parseWithGeminiVisionCall

SpecAi == AiInit /\ [][AiNext]_vars

\* a one-line payment text: a period label followed by the bare YYYYMM value
PeriodeLabels == {"Periode: ", "Periode Tagihan : ", "Bulan ", "Thn.Bln:", "Rekoning Bulan "}
PeriodeYears == {"2000", "2024", "2025", "2099"}
MonthCodes == {"01", "02", "03", "04", "05", "06", "07", "08", "09", "10", "11", "12"}

PeriodeInit == FnInit /\ arg \in [label : PeriodeLabels, year : PeriodeYears, month : MonthCodes]

parsePeriodeCall == Apply(parsePaymentText(arg.label \o arg.year \o arg.month))

PeriodeNext == parsePeriodeCall

SpecPeriode == PeriodeInit /\ [][PeriodeNext]_vars

\* quantities at and around the examples, the powers of ten and the
\* halfway cases of the rounding
KwhAmounts ==
  UNION {Around(n) : n \in {102, 1000, 1005, 1015, 1025, 1035, 3530, 3535, 9995, 14090, 99995,
                            1234567}}

\* what ([\d,.]+) can capture: digits, commas and periods
KwhCaptures ==
  {",", ".", "7", "0", "7,", "46", "4,6", "07", "00", "0046", "35,30", "1.409,0", "3.530", "000"}
    \cup {toString(n) : n \in KwhAmounts}

KwhInit == FnInit /\ arg \in KwhCaptures

formatKwhDigitsCall == Apply(formatKwhDigits(arg))

KwhNext == formatKwhDigitsCall

SpecKwh == KwhInit /\ [][KwhNext]_vars

\* tokens of twenty digits, built of five groups, and tokens that are not
TokenGroups == {"0000", "1234", "9876"}
Tokens20 ==
  {a \o b \o c \o d \o e : a \in TokenGroups, b \in TokenGroups, c \in TokenGroups,
                           d \in TokenGroups, e \in TokenGroups}
TokensOdd ==
  {"", "1234", "12345", "1234567890123456789", "123456789012345678901",
   "1234 5678 9012 3456 7890", "1234-5678-9012-3456"}

\* amounts as the records hold them: digit strings, some with leading zeros
RpInputs ==
  {"", "0", "7", "12", "000", "0001234", "1234567", "123456"}
    \cup {toString(n) : n \in UNION {Around(k) : k \in {100, 1000, 20000, 100000, 1000000,
                                                         12345678}}}

DisplayInit ==
  /\ FnInit
  /\ arg \in [fn : {"formatToken", "formatTokenBluetooth", "splitToken"},
              input : Tokens20 \cup TokensOdd]
             \cup [fn : {"formatRp", "formatRpCents", "formatNumber"}, input : RpInputs]

formatTokenCall == arg.fn = "formatToken" /\ Apply(formatToken(arg.input))

formatTokenBluetoothCall ==
  arg.fn = "formatTokenBluetooth" /\ Apply(formatTokenBluetooth(arg.input))

splitTokenCall == arg.fn = "splitToken" /\ Apply(splitToken(arg.input))

formatRpCall == arg.fn = "formatRp" /\ Apply(formatRp(arg.input))

formatRpCentsCall == arg.fn = "formatRpCents" /\ Apply(formatRpCents(arg.input))

formatNumberCall == arg.fn = "formatNumber" /\ Apply(formatNumber(arg.input))

DisplayNext ==
  \/ formatTokenCall
  \/ formatTokenBluetoothCall
  \/ splitTokenCall
  \/ formatRpCall
  \/ formatRpCentsCall
  \/ formatNumberCall

SpecDisplay == DisplayInit /\ [][DisplayNext]_vars

\* texts that say little or nothing: blanks, marks, stray words and numbers,
\* a date, alone and in pairs of lines, among two that do hold a field
NoiseLines ==
  {"", "??", "abc", "lorem ipsum", "No struk 77", "2025-01-31 xx", "12", "T x", " \t "}
NoiseTexts ==
  {" ", "\n\n", "Tagihan Rp50.000", "1111 2222 3333 4444 5555"}
    \cup {Lines(<<a, b>>) : a \in NoiseLines, b \in NoiseLines}

RecordInit ==
  /\ FnInit
  /\ arg \in [fn : {"parsePLNText", "parsePaymentText"}, input : NoiseTexts]

parsePLNTextOnNoise == arg.fn = "parsePLNText" /\ Apply(parsePLNText(arg.input))

parsePaymentTextOnNoise == arg.fn = "parsePaymentText" /\ Apply(parsePaymentText(arg.input))

RecordNext == parsePLNTextOnNoise \/ parsePaymentTextOnNoise

SpecRecord == RecordInit /\ [][RecordNext]_vars

\* values as the extractors hand them to the sanitizer: up to two labels, a
\* separator between them, and what is left of the value
CleanHeads ==
  {"", "T ", "t ", "Nama", "nama", "Tarif/Daya", "Tarif Daya", "Tarif", "Daya", "IDPEL",
   "Nomor Pelanggan", "Nomor Meter", "No. Ref", "No.Ref", "No", "Ref", "Stroom", "TOKEN",
   "Rp", "RP.", "rp", "Tx"}
CleanSeps == {"", " ", ": ", " - ", ".", " \n\t "}
CleanSeconds == {"", "T ", "Nama ", "No: ", "Rp ", "Rp.Rp"}
CleanBodies == {"", "X", "BUDI  SANTOSO ", "5", "20.000", "-1", "Ref 7"}
CleanInputs ==
  {h \o s \o n \o b : h \in CleanHeads, s \in CleanSeps, n \in CleanSeconds, b \in CleanBodies}

CleanInit == FnInit /\ arg \in CleanInputs

cleanValueCall == Apply(cleanValue(arg))

CleanNext == cleanValueCall

SpecClean == CleanInit /\ [][CleanNext]_vars

\* receipts with a name line: the label, the name, and what follows the name
\* on the same line or on the next one
NamaSeps == {": ", " ", ":"}
NamaGaps == {" ", "\n", "  \n"}
TokenNames == {"BUDI SANTOSO", "SITI NURHALIZA", "NOVITA SARI", "DAYAT", "REFI", "T SUPARMAN"}
TokenNextLabels ==
  {"", "Tarif/Daya R1/900 VA", "IDPEL: 530123456789", "Nomor Meter 14234567890",
   "Stroom/Token Rp50.000", "Total Bayar Rp52.500", "No. Pesanan 123", "No. Meter 142"}
PaymentNames ==
  {"MARDALENA", "BUDI SANTOSO", "NOVITA SARI", "SALAMAT", "H. SALAMAT RIADI", "SUTOTALIS"}
PaymentTails ==
  {"", " No.Pel 0012345", " ID PEL: 0012345", " NO SAMB 77", " Periode JAN 2025",
   " Alamat: JL. MERDEKA 5", " TOTAL 50.000", " Tagihan Rp50.000", "\nAlamat: JL. MERDEKA 5"}

NameArgs ==
  [fn : {"parsePLNText"}, sep : NamaSeps, name : TokenNames, gap : NamaGaps,
   next : TokenNextLabels]
    \cup [fn : {"parsePaymentText"}, sep : NamaSeps, name : PaymentNames, gap : {""},
          next : PaymentTails]

NameText(a) == "Nama" \o a.sep \o a.name \o a.gap \o a.next

NamesInit == FnInit /\ arg \in NameArgs

parsePLNTextOnNames == arg.fn = "parsePLNText" /\ Apply(parsePLNText(NameText(arg)))

parsePaymentTextOnNames == arg.fn = "parsePaymentText" /\ Apply(parsePaymentText(NameText(arg)))

NamesNext == parsePLNTextOnNames \/ parsePaymentTextOnNames

SpecNames == NamesInit /\ [][NamesNext]_vars

\* bills with up to three lines that can give the period, one per tier: a
\* labelled value (kept or refused), a month name with a year, and MM/YYYY;
\* the labelled line first or last
TierLabels == {"Periode: ", "Bulan "}
LabelValues ==
  {"", "JAN 2025", "jan 2025", "202512", "PEMAKAIAN AIR MINUM", "12", "PEMAKAIAN AIR BERSIH",
   "-- 2/25"}
MonthNameLines == {"", "Pemakaian FEB 2024", "pemakaian feb-24"}
NumericLines == {"", "Tgl 03/2023", "12-2024 lunas"}

TierArgs ==
  [label : TierLabels, value : LabelValues, month : MonthNameLines, numeric : NumericLines,
   labelFirst : BOOLEAN]

LabelLine(a) == IF a.value = "" THEN "" ELSE a.label \o a.value

TierText(a) ==
  IF a.labelFirst THEN Lines(<<LabelLine(a), a.month, a.numeric>>)
  ELSE Lines(<<a.numeric, a.month, LabelLine(a)>>)

TiersInit == FnInit /\ arg \in TierArgs

parsePeriodeTiersCall == Apply(parsePaymentText(TierText(arg)))

TiersNext == parsePeriodeTiersCall

SpecTiers == TiersInit /\ [][TiersNext]_vars

\* receipts with up to three lines that hold a token, one per pattern and
\* each with its own digits, in three orders
StroomTokenLines ==
  {"", "Stroom/Nomor Token 1111 2222 3333 4444 5555",
   "STROOM/NOMOR TOKEN\n11112222 3333 44445555 kWh"}
LabelTokenLines ==
  {"", "TOKEN : 6666 7777 8888 9999 0000", "Ref 9 token:66667777888899990000."}
BareTokenLines ==
  {"", "1234 5678 9012 3456 7890", "x1234\t5678 9012 3456 78901", "12345678901234567890",
   "1234 5678 9012 3456 789"}
TokenOrders == {<<1, 2, 3>>, <<3, 2, 1>>, <<2, 3, 1>>}

TokenFieldArgs ==
  [stroom : StroomTokenLines, label : LabelTokenLines, bare : BareTokenLines,
   order : TokenOrders]

TokenFieldText(a) ==
  Lines([i \in 1..3 |-> <<a.stroom, a.label, a.bare>>[a.order[i]]])

TokenFieldInit == FnInit /\ arg \in TokenFieldArgs

parseTokenFieldCall == Apply(parsePLNText(TokenFieldText(arg)))

TokenFieldNext == parseTokenFieldCall

SpecTokenField == TokenFieldInit /\ [][TokenFieldNext]_vars

(***************************************************************************)
(* The application with overlapping submissions: every file submitted is   *)
(* a call of processImage of its own, suspended at its await until the     *)
(* extraction settles; the user changes the mode, the fee and the settings *)
(* and prints in between.  The extraction is taken as a whole: it rejects, *)
(* or resolves with the record of the extractor of the mode it was given   *)
(* (in the PLN modes, the record of the fallback).                         *)
(***************************************************************************)
\* files submitted in one run of the application with overlapping calls
MaxFiles == 2

\* the recognized text of the files: a token receipt and a water bill
AppFiles ==
  {"Rp  Stroom/Token : Rp 73.000 \nTOKEN: 1234 5678 9012 3456 7890",
   "PDAM KOTA PADANG\nNama : SITI\nTagihan Rp50.000"}

\* the fees offered by the admin-fee selector, and the names a user may save
AdminChoices == {2500, defaultAdmin}
StoreNames == {defaultStoreName, "TOKO BARU"}

AppTable ==
  [t \in AppFiles |-> [token |-> parsePLNText(t), payment |-> parsePaymentText(t)]]

OverlapInit ==
  /\ AppInit
  /\ CallIdle
  /\ extracted = AppTable
  /\ answered = <<>>
  /\ arg = ""
  /\ ret = NotCalled

\* the file input's change handler and processImage(source) up to its await:
\* processReceipt(source, appMode) is started with the mode of that moment
submitFile(file) ==
  /\ Len(jobs) < MaxFiles
  /\ jobs' = Append(jobs, [file |-> file, mode |-> appMode, running |-> TRUE,
                           checkedIn |-> "", shown |-> FALSE])
  /\ calls' = calls + 1
  /\ status' = "processing"
  /\ UNCHANGED <<appMode, currentReceiptData, customAdmin, view, storeName, printed,
                 callVars, fnVars>>

\* what processReceipt(file, mode) resolves with
receiptOf(job) ==
  JSObject(extracted[job.file][IF job.mode = "payment" THEN "payment" ELSE "token"])

\* processImage after its await, for the call k: the catch block, or the
\* acceptance checks (which read appMode as it is now) and showResult
resumeCall(k, ok) ==
  /\ k \in DOMAIN jobs
  /\ jobs[k].running
  /\ IF ~ok
       THEN /\ status' = "failed"
            /\ jobs' = [jobs EXCEPT ![k].running = FALSE]
            /\ UNCHANGED <<currentReceiptData, view>>
     ELSE IF appMode = "token" /\ PropOr(receiptOf(jobs[k]), "token", "") = ""
       THEN /\ status' = "token not found"
            /\ jobs' = [jobs EXCEPT ![k].running = FALSE, ![k].checkedIn = appMode]
            /\ UNCHANGED <<currentReceiptData, view>>
     ELSE IF /\ appMode = "payment"
             /\ PropOr(receiptOf(jobs[k]), "tagihan", "") = ""
             /\ PropOr(receiptOf(jobs[k]), "total", "") = ""
       THEN /\ status' = "not a payment receipt"
            /\ jobs' = [jobs EXCEPT ![k].running = FALSE, ![k].checkedIn = appMode]
            /\ UNCHANGED <<currentReceiptData, view>>
     ELSE /\ showResult(receiptOf(jobs[k]))
          /\ jobs' = [jobs EXCEPT ![k].running = FALSE, ![k].checkedIn = appMode,
                                  ![k].shown = TRUE]
          /\ UNCHANGED status
  /\ UNCHANGED <<appMode, customAdmin, calls, storeName, printed, callVars, fnVars>>

\* parseInt(appMode === 'token' ? (data.nominal || '0') : (data.tagihan || '0'))
baseAmount(data) ==
  parseInt(IF appMode = "token" THEN PropOr(data, "nominal", "0")
           ELSE PropOr(data, "tagihan", "0"))

\* the change handler of the admin-fee selector
adminSelectChange(value) ==
  /\ currentReceiptData # JSNull
  /\ currentReceiptData' =
       SetProp(SetProp(currentReceiptData, "admin", JSNumber(value)), "total",
               IF baseAmount(currentReceiptData).nan THEN JSNaN
               ELSE JSNumber(baseAmount(currentReceiptData).val + value))
  /\ customAdmin' = value
  /\ UNCHANGED <<appMode, calls, view, status, storeName, printed, jobs, callVars, fnVars>>

\* the click handler of the settings' save button
saveSettings(name) ==
  /\ storeName' = name
  /\ IF currentReceiptData # JSNull THEN showResult(currentReceiptData)
     ELSE UNCHANGED <<currentReceiptData, view>>
  /\ UNCHANGED <<appMode, customAdmin, calls, status, printed, jobs, callVars, fnVars>>

\* the click handler of the print button:
\* printViaRawBT({ ...currentReceiptData, storeName, mode: appMode })
printClick ==
  /\ currentReceiptData # JSNull
  /\ printed' = SetProp(SetProp(currentReceiptData, "storeName", storeName), "mode", appMode)
  /\ status' = "sent to printer"
  /\ UNCHANGED <<appMode, currentReceiptData, customAdmin, calls, view, storeName, jobs,
                 callVars, fnVars>>

OverlapNext ==
  \/ \E m \in Modes : setMode(m)
  \/ \E file \in AppFiles : submitFile(file)
  \/ \E k \in 1..MaxFiles, ok \in BOOLEAN : resumeCall(k, ok)
  \/ \E value \in AdminChoices : adminSelectChange(value)
  \/ \E name \in StoreNames : saveSettings(name)
  \/ printClick

SpecOverlap == OverlapInit /\ [][OverlapNext]_vars

\* field values made of digits, commas, periods and slashes: every string of
\* up to three of five such characters, and values as the extractors compute
\* them
PlainChars == {"0", "7", ",", ".", "/"}
PlainShort ==
  {""} \cup PlainChars \cup {a \o b : a \in PlainChars, b \in PlainChars}
       \cup {a \o b \o c : a \in PlainChars, b \in PlainChars, c \in PlainChars}
PlainValues ==
  PlainShort \cup {"12345678901234567890", "530123456789", "35,3", "1000,0", "50000", "2500",
                   "52.500", "0,00/0,00", "1.000/3.000", "7,500", "2.220,00"}

PlainInit == FnInit /\ arg \in PlainValues

SpecPlain == PlainInit /\ [][CleanNext]_vars

(***************************************************************************)
(* Properties                                                              *)
(***************************************************************************)
Canonical == {20000, 50000, 100000, 200000, 500000, 1000000}

CanonicalString(d) ==
  CASE d = 20000 -> "20000" [] d = 50000 -> "50000" [] d = 100000 -> "100000"
    [] d = 200000 -> "200000" [] d = 500000 -> "500000" [] d = 1000000 -> "1000000"

CanonicalStrings == {CanonicalString(d) : d \in Canonical}

Distance(a, b) == IF a < b THEN b - a ELSE a - b

\* the denominations whose tolerance interval (15% of the denomination on
\* either side, ends included) holds n
Near(n) == {d \in Canonical : 100 * Distance(n, d) <= 15 * d}

Least(S) == CHOOSE d \in S : \A e \in S : d <= e

\* C1 as stated: whenever the token extractor finds a value for nominal, the
\* record's nominal is one of the six canonical denominations.
C1_NominalAlwaysCanonical ==
  ret.done => ret.value.nominal \in {""} \cup CanonicalStrings

\* C1: the record's nominal is empty, or a canonical denomination, or a run of
\* digits whose value lies in no denomination's tolerance interval (a
\* labelled amount that far from every denomination is kept as read).
C1_NominalCanonicalOrOutOfTolerance ==
  ret.done =>
    LET nominal == ret.value.nominal
    IN  \/ nominal = ""
        \/ nominal \in CanonicalStrings
        \/ IsDigits(nominal) /\ Near(parseInt(nominal).val) = {}

\* a labelled amount outside every interval came back as read
C1_Witness ==
  /\ ret.done
  /\ arg = "Stroom/Token : Rp 73000"
  /\ ret.value.nominal = "73000"

\* C2: snap("42000") is "50000", snap("18500") is "20000" and snap("73000")
\* is "73000".
C2_SnapExamples ==
  ret.done =>
    /\ arg = "42000" => ret.value = "50000"
    /\ arg = "18500" => ret.value = "20000"
    /\ arg = "73000" => ret.value = "73000"

\* C3: snap returns its input unchanged when it does not parse as an integer;
\* otherwise the first denomination, in ascending order, whose tolerance
\* interval (ends included) holds the parsed value; otherwise its input
\* unchanged.
C3_SnapContract ==
  ret.done =>
    LET num == parseInt(arg)
    IN  IF num.nan THEN ret.value = arg
        ELSE IF Near(num.val) = {} THEN ret.value = arg
        ELSE ret.value = CanonicalString(Least(Near(num.val)))

\* an amount on the lower end of the first interval was snapped
C3_Witness ==
  /\ ret.done
  /\ arg = "17000"
  /\ ret.value = "20000"

\* C4: a processImage call started in payment mode, of an image or of a PDF,
\* never invokes the AI collaborator nor the token extractor, and what it
\* resolves with is the payment extractor's record.
C4_PaymentNeverUsesAi ==
  startMode = "payment" =>
    /\ aiCalls = 0
    /\ plnRuns = 0
    /\ outcome.kind = "resolved" =>
         payRuns = 1 /\ outcome.value = JSObject(extracted[text].payment)

\* C5: in token mode, when the AI collaborator returns a non-null value, the
\* call resolves with that value, its raw overwritten by the OCR text, and
\* the rule-based extractor is not run.
C5_AiValueReturned ==
  outcome.kind # "pending" /\ aiResult.type \notin {"undefined", "null"} =>
    /\ plnRuns = 0
    /\ payRuns = 0
    /\ outcome.kind = "resolved"
    /\ IsObject(aiResult)
    /\ outcome.value = SetProp(aiResult, "raw", text)

TokenFields ==
  {"token", "idpel", "nama", "tarif", "kwh", "nominal", "admin", "total", "ppn",
   "angsmat", "noPesanan", "raw"}

\* C6: when the AI collaborator returns null, the call runs the token
\* extractor once and resolves with its record: it is never rejected and
\* never resolves with null, whatever the OCR text (the empty one included).
C6_NullAiFallsBack ==
  outcome.kind # "pending" /\ aiResult.type = "null" =>
    /\ outcome.kind = "resolved"
    /\ plnRuns = 1
    /\ payRuns = 0
    /\ IsObject(outcome.value)
    /\ DOMAIN outcome.value.props = TokenFields
    /\ outcome.value = JSObject(extracted[text].token)

\* the fallback ran on the empty text
C6_Witness ==
  /\ outcome.kind = "resolved"
  /\ aiResult.type = "null"
  /\ text = ""
  /\ plnRuns = 1
  /\ outcome.value.props.raw = ""

\* a data URL as the callers build it: data:<mime>;base64,<payload>
wellFormedDataUrl ==
  Cat(<<Bol, Lit("data:"), Plus(NotCls({";", ","})), Lit(";base64,")>>)

\* the exchange with the model fails: no response, a response that is not
\* ok, a body that is not the expected JSON, no candidate, or an answer that
\* does not parse
ExchangeFails(reply) ==
  \/ reply.fetch = "rejects"
  \/ ~reply.ok
  \/ ~reply.json
  \/ reply.candidates = <<>>
  \/ reply.candidates[1] \in {"Maaf, saya tidak bisa"}

\* C7: parseWithGemini and parseWithGeminiVision never throw, and return null
\* on every failure: of the network, of the response, of the parse of the
\* answer, and on a data URL whose prefix is missing or malformed.
C7_AiParsersReturnNull ==
  ret.done =>
    /\ ret.value.kind = "returns"
    /\ ExchangeFails(arg.reply) => ret.value = Returns(JSNull)
    /\ arg.fn = "parseWithGeminiVision" /\ ~test(wellFormedDataUrl, arg.input)
         /\ arg.input # "" => ret.value = Returns(JSNull)

C9_RawIsOcrText ==
  outcome.kind = "resolved" =>
    /\ HasProp(outcome.value, "raw")
    /\ outcome.value.props.raw = text

\* the rule-based token path kept a text the sanitizer would have changed
C9_Witness ==
  /\ outcome.kind = "resolved"
  /\ plnRuns = 1
  /\ text = "T 1111 2222 3333 4444 5555\n\n beli 50000  "
  /\ cleanValue(text) # text
  /\ outcome.value.props.raw = text

\* C10: in a payment record tagihan is empty exactly when total is empty; a
\* text without a total gives total = tagihan, a text without a bill gives
\* tagihan = total, and "Tagihan Rp50.000" alone gives "50000" for both.
C10_CrossDefault ==
  ret.done =>
    LET r == ret.value
    IN  /\ r.tagihan = "" <=> r.total = ""
        /\ ~includes(toUpperCase(arg), "TOTAL") => r.total = r.tagihan
        /\ ~includes(toUpperCase(arg), "TAGIHAN") /\ ~includes(toUpperCase(arg), "TOTAL AIR")
             => r.tagihan = r.total
        /\ arg = "Tagihan Rp50.000" => r.tagihan = "50000" /\ r.total = "50000"

\* the total was filled from the only amount the text holds
C10_Witness ==
  /\ ret.done
  /\ arg = "Tagihan Rp50.000"
  /\ ret.value.tagihan = "50000"
  /\ ret.value.total = "50000"

\* the full Indonesian name of each month, in uppercase
MonthNames ==
  [code \in MonthCodes |->
     CASE code = "01" -> "JANUARI"   [] code = "02" -> "FEBRUARI" [] code = "03" -> "MARET"
       [] code = "04" -> "APRIL"     [] code = "05" -> "MEI"      [] code = "06" -> "JUNI"
       [] code = "07" -> "JULI"      [] code = "08" -> "AGUSTUS"  [] code = "09" -> "SEPTEMBER"
       [] code = "10" -> "OKTOBER"   [] code = "11" -> "NOVEMBER" [] code = "12" -> "DESEMBER"]

\* C11: a payment text whose period label is followed by the bare YYYYMM
\* value gives, in the sanitized record, periode = the full uppercase name of
\* month MM, a blank and YYYY, for every month 01..12 and every year 20YY.
C11_MonthNormalization ==
  ret.done => ret.value.periode = MonthNames[arg.month] \o " " \o arg.year

\* the tenths t written with one decimal digit and a comma
OneDecimal(t) == toString(t \div 10) \o "," \o toString(t % 10)

\* C12: with the non-digits of the captured value stripped, a run of exactly
\* two digits gets ",0" appended; a run of three or more digits is its
\* integer value divided by 100, written with one decimal digit (the nearest
\* one) and a comma; a run of no or one digit is returned as it is.  "46"
\* gives "46,0", "3530" gives "35,3" and "14090" gives "140,9".
C12_KwhReconstruction ==
  ret.done =>
    LET val == KeepChars(arg, Digits)
        num == parseInt(val).val
    IN  /\ Len(val) <= 1 => ret.value = val
        /\ Len(val) = 2 => ret.value = val \o ",0"
        /\ Len(val) >= 3 =>
             \E t \in {num \div 10, num \div 10 + 1} :
               /\ Distance(10 * t, num) <= 5
               /\ ret.value = OneDecimal(t)
        /\ arg = "46" => ret.value = "46,0"
        /\ arg = "3530" => ret.value = "35,3"
        /\ arg = "14090" => ret.value = "140,9"

\* a four-digit run was divided by 100
C12_Witness ==
  /\ ret.done
  /\ arg = "3530"
  /\ ret.value = "35,3"

\* C13: for a text holding "Nomor Pelanggan 530123456789", "Nama: BUDI
\* SANTOSO", "R1M/900 VA", "Jumlah KWH 3530", "Stroom/Token Rp42000" and
\* "Biaya Admin Rp2500", the token extractor returns idpel "530123456789",
\* nama "BUDI SANTOSO", tarif "R1M/900 VA", kwh "35,3", nominal "50000" and
\* admin "2500".
C13_EndToEndToken ==
  ret.done /\ arg \in ScenarioTexts =>
    /\ ret.value.idpel = "530123456789"
    /\ ret.value.nama = "BUDI SANTOSO"
    /\ ret.value.tarif = "R1M/900 VA"
    /\ ret.value.kwh = "35,3"
    /\ ret.value.nominal = "50000"
    /\ ret.value.admin = "2500"

\* C18: the token extractor's angsmat is "<angsuran>/<materai>" exactly when
\* the text holds both an Angsuran value and a Materai value, and is the
\* default "0,00/0,00" when either is missing.
C18_AngsmatComposite ==
  ret.done =>
    IF test(angsuranPattern, arg) /\ test(materaiPattern, arg)
      THEN ret.value.angsmat = Group(arg, match(arg, angsuranPattern), 1) \o "/"
                                 \o Group(arg, match(arg, materaiPattern), 1)
      ELSE ret.value.angsmat = "0,00/0,00"

TokenFns == {"formatToken", "formatTokenBluetooth", "splitToken"}

\* the n-th group of four of a token
Quad(T, n) == SubSeq(T, 4 * n - 3, 4 * n)

\* C14: for a token T of twenty digits, formatToken(T) is its five groups of
\* four in order with single blanks between them, splitToken(T) is two lines,
\* the first three groups and the last two, joined by hyphens, and either
\* output without its separators is T; a token that is empty or not twenty
\* characters long is rendered as the dash placeholder.
C14_TokenRendering ==
  ret.done /\ arg.fn \in TokenFns =>
    LET T == arg.input
    IN  IF Len(T) = 20 /\ IsDigits(T)
          THEN IF arg.fn = "splitToken"
                 THEN /\ ret.value = Quad(T, 1) \o "-" \o Quad(T, 2) \o "-" \o Quad(T, 3) \o "\n"
                                       \o Quad(T, 4) \o "-" \o Quad(T, 5) \o "\n"
                      /\ RemoveChars(ret.value, {"-", "\n"}) = T
                 ELSE /\ ret.value = Quad(T, 1) \o " " \o Quad(T, 2) \o " " \o Quad(T, 3) \o " "
                                       \o Quad(T, 4) \o " " \o Quad(T, 5)
                      /\ RemoveChars(ret.value, {" "}) = T
          ELSE Len(T) # 20 =>
                 ret.value = IF arg.fn = "splitToken" THEN "---- ---- ---- ----\n---- ----"
                             ELSE "---- ---- ---- ---- ----"

RpFns == {"formatRp", "formatRpCents", "formatNumber"}

\* digits with a period ahead of every group of three counted from the right
RECURSIVE Grouped(_)
Grouped(digits) ==
  IF Len(digits) <= 3 THEN digits
  ELSE Grouped(SubSeq(digits, 1, Len(digits) - 3)) \o "."
         \o SubSeq(digits, Len(digits) - 2, Len(digits))

\* C15: for every digit string that is not empty, formatRp and the printing
\* helper formatNumber return its digits with "." ahead of every group of
\* three counted from the right and nothing else added ("1234567" gives
\* "1.234.567"); the empty input gives "0".
C15_CurrencyFormatting ==
  ret.done /\ arg.fn \in RpFns =>
    /\ arg.input # "" => ret.value = Grouped(arg.input)
    /\ arg.input # "" => RemoveChars(ret.value, {"."}) = arg.input
    /\ arg.input = "1234567" => ret.value = "1.234.567"
    /\ arg.input = "" => ret.value = "0"

\* none of the token extractor's patterns matches the text
NoTokenPattern(t) ==
  /\ ~firstMatch(t, tokenPatterns).found
  /\ ~firstMatch(t, plnIdpelPatterns).found
  /\ ~test(plnNamaLabelPattern, t)
  /\ ~firstMatch(t, <<tarifShapePattern, tarifLabelPattern>>).found
  /\ ~firstMatch(t, kwhPatterns).found
  /\ ~firstMatch(t, nominalPatterns).found
  /\ ~test(bareDenomination, blankNonDigits(t))
  /\ ~firstMatch(t, plnAdminPatterns).found
  /\ ~firstMatch(t, plnTotalPatterns).found
  /\ ~test(ppnPattern, t)

\* none of the payment extractor's patterns matches the text
NoPaymentPattern(t) ==
  /\ ~firstMatch(t, lokasiPatterns).found
  /\ ~test(payNamaLabelPattern, t)
  /\ ~firstMatch(t, payIdpelPatterns).found
  /\ ~test(periodeLabelPattern, t)
  /\ ~test(datePattern, t)
  /\ ~test(mmyyyyPattern, t)
  /\ ~test(tagihanPattern, t)
  /\ ~test(payAdminPattern, t)
  /\ ~test(payTotalPattern, t)
  /\ ~test(noPesananPattern, t)

\* the text has no line for the location's last resort: none longer than
\* three characters, or the first such line holds an ISO date
NoHeaderLine(t) == firstLongLine(t, 1) = "" \/ test(isoDate, firstLongLine(t, 1))

DefaultTokenRecord(t) ==
  [token |-> "", idpel |-> "", nama |-> "", tarif |-> "", kwh |-> "", nominal |-> "",
   admin |-> "", total |-> "", ppn |-> "0", angsmat |-> "0,00/0,00", noPesanan |-> "",
   raw |-> t]

DefaultPaymentRecord(t) ==
  [mode |-> "payment", lokasi |-> "", nama |-> "", idpel |-> "", periode |-> "", stand |-> "",
   tagihan |-> "", admin |-> "", total |-> "", noPesanan |-> "", raw |-> t]

CommonFields == {"idpel", "nama", "admin", "total", "raw"}
TokenModeFields == {"token", "tarif", "kwh", "nominal", "ppn", "angsmat"}
PaymentModeFields == {"lokasi", "periode", "tagihan"}

RequiredFields(m) ==
  CommonFields \cup (IF m = "payment" THEN PaymentModeFields ELSE TokenModeFields)

\* C17: the record an extraction call resolves with has every field of the
\* record shape of its mode, each of them a string (never null nor
\* undefined), whichever path produced it.
C17_RecordShape ==
  outcome.kind = "resolved" =>
    /\ IsObject(outcome.value)
    /\ RequiredFields(mode) \subseteq DOMAIN outcome.value.props
    /\ \A key \in RequiredFields(mode) \cap DOMAIN outcome.value.props :
         outcome.value.props[key] \in STRING

\* C19: within one call nothing is parsed before the recognition has
\* completed, the rule-based fallback does not start before the AI attempt
\* has returned, the AI collaborator is called at most once and no extractor
\* runs twice, and a call whose AI attempt came back null has run the token
\* extractor exactly once when it settles.
C19_SequentialOnce ==
  /\ aiCalls <= 1
  /\ plnRuns <= 1
  /\ payRuns <= 1
  /\ aiCalls + plnRuns + payRuns > 0 => recognized = "ok"
  /\ pc = "gemini" => plnRuns = 0 /\ aiResult = JSUndefined
  /\ plnRuns = 1 => aiCalls = 1 /\ aiResult # JSUndefined
  /\ pc \in {"settled", "idle"} /\ aiResult = JSNull => plnRuns = 1

\* a call settled after one recognition, one AI attempt and one fallback
C19_Witness ==
  /\ pc = "settled"
  /\ recognized = "ok"
  /\ aiCalls = 1
  /\ aiResult = JSNull
  /\ plnRuns = 1
  /\ terminations = 1

HasPrefixI(str, p) ==
  /\ Len(str) >= Len(p)
  /\ toUpperCase(SubSeq(str, 1, Len(p))) = toUpperCase(p)

DropFirst(str, n) == SubSeq(str, n + 1, Len(str))

IsSuffix(t, str) == Len(t) <= Len(str) /\ SubSeq(str, Len(str) - Len(t) + 1, Len(str)) = t

\* the field labels in list order, "No. Ref" with and without its blank
FieldLabels ==
  <<"Nama", "Tarif/Daya", "Tarif Daya", "Tarif", "Daya", "IDPEL", "Nomor Pelanggan",
    "Nomor Meter", "No.Ref", "No. Ref", "No", "Ref", "Stroom", "Token">>

\* a lone leading T and its blank
WithoutT(str) == IF HasPrefixI(str, "T ") THEN DropFirst(str, 2) ELSE str

WithoutOne(str, set) ==
  IF str # "" /\ SubSeq(str, 1, 1) \in set THEN DropFirst(str, 1) ELSE str

\* the first label of the list that starts str, its separator and the blanks
\* around the separator
WithoutLabelAt(str, at) ==
  trimStart(WithoutOne(trimStart(DropFirst(str, Len(FieldLabels[at]))), {":", ".", "-"}))

WithoutLabel(str) ==
  IF \E i \in DOMAIN FieldLabels : HasPrefixI(str, FieldLabels[i])
    THEN WithoutLabelAt(str, CHOOSE i \in DOMAIN FieldLabels :
                               /\ HasPrefixI(str, FieldLabels[i])
                               /\ \A j \in 1..(i - 1) : ~HasPrefixI(str, FieldLabels[j]))
    ELSE str

\* a leading Rp, its period and the blanks after it
WithoutRp(str) ==
  IF HasPrefixI(str, "Rp") THEN trimStart(WithoutOne(DropFirst(str, 2), {"."})) ELSE str

\* C20: the sanitizer returns the value with its white space collapsed and
\* trimmed, then without a lone leading "T ", then without one leading field
\* label and its separator, then without one leading Rp, each removed once
\* and in that order, and trimmed; the result is an end of the collapsed
\* value (nothing is removed but at the start), and the empty value gives the
\* empty string.
C20_SanitizerOnePass ==
  ret.done =>
    /\ ret.value = trim(WithoutRp(WithoutLabel(WithoutT(trim(NormalizeSpaces(arg))))))
    /\ IsSuffix(ret.value, trim(NormalizeSpaces(arg)))
    /\ arg = "" => ret.value = ""

\* a value with the same label twice: the second one stays
C20_Witness ==
  /\ arg = "Nama: Nama X"
  /\ ret.done
  /\ ret.value = "Nama X"

\* C21: in token mode the returned nama is the text after the "Nama" label up
\* to the next field label (tariff, customer id, token, total, order number,
\* meter number) or the end of the text, trimmed, whatever letters the name
\* starts with and whether the next label is on the same line or the next.
C21_TokenName ==
  ret.done /\ arg.fn = "parsePLNText" => ret.value.nama = arg.name

\* f stands in str at place i as a separate token
StandsAt(str, f, i) ==
  /\ i + Len(f) - 1 <= Len(str)
  /\ toUpperCase(SubSeq(str, i, i + Len(f) - 1)) = f
  /\ i = 1 \/ SubSeq(str, i - 1, i - 1) \in WS

MarkerPlaces(str) == {i \in 1..Len(str) : \E k \in DOMAIN fields : StandsAt(str, fields[k], i)}

\* str up to the first marker that stands as a separate token
CutAtFirstMarker(str) ==
  IF MarkerPlaces(str) = {} THEN trim(str)
  ELSE trim(SubSeq(str, 1, (CHOOSE i \in MarkerPlaces(str) : \A j \in MarkerPlaces(str) : i <= j) - 1))

FirstLine(str) ==
  IF \E i \in 1..Len(str) : SubSeq(str, i, i) \in LineEnds
    THEN SubSeq(str, 1, (CHOOSE i \in 1..Len(str) :
                           /\ SubSeq(str, i, i) \in LineEnds
                           /\ \A j \in 1..(i - 1) : SubSeq(str, j, j) \notin LineEnds) - 1)
    ELSE str

\* C22: in payment mode the returned nama is the rest of the name line cut at
\* the first field marker that stands as a separate token, so it holds no
\* marker as a separate token; a marker inside a longer word does not cut,
\* and the sanitizer is not applied to nama.
C22_PaymentName ==
  ret.done /\ arg.fn = "parsePaymentText" =>
    /\ ret.value.nama = CutAtFirstMarker(FirstLine(arg.name \o arg.next))
    /\ MarkerPlaces(ret.value.nama) = {}

\* what a labelled value gives when it is kept ("" when it is refused: no run
\* of four digits or three letters, or twenty characters and more)
KeptLabelValue(v) ==
  CASE v \in {"JAN 2025", "jan 2025"} -> "JAN 2025"
    [] v = "202512" -> "DESEMBER 2025"
    [] v = "PEMAKAIAN AIR MINUM" -> "PEMAKAIAN AIR MINUM"
    [] OTHER -> ""

MonthNameValue(l) ==
  CASE l = "Pemakaian FEB 2024" -> "FEB 2024"
    [] l = "pemakaian feb-24" -> "FEB 24"
    [] OTHER -> ""

NumericValue(l) ==
  CASE l = "Tgl 03/2023" -> "MARET 2023"
    [] l = "12-2024 lunas" -> "DESEMBER 2024"
    [] OTHER -> ""

\* C23: the period comes from the labelled value when it is kept (it holds a
\* run of four digits or of three letters and is shorter than 20
\* characters), otherwise from the month-name line, otherwise from the
\* MM/YYYY line, wherever the lines stand; the returned periode is uppercase.
C23_PeriodeTiers ==
  ret.done =>
    /\ ret.value.periode =
         orElse(orElse(KeptLabelValue(arg.value), MonthNameValue(arg.month)),
                NumericValue(arg.numeric))
    /\ ret.value.periode = toUpperCase(ret.value.periode)

\* a refused labelled value of twenty characters, the month-name line used
C23_Witness ==
  /\ ret.done
  /\ arg.value = "PEMAKAIAN AIR BERSIH"
  /\ arg.month = "pemakaian feb-24"
  /\ arg.numeric = "Tgl 03/2023"
  /\ ret.value.periode = "FEB 24"

\* the digits of a bare line when it holds five groups of four digits
\* separated by white space
BareToken(l) ==
  IF l \in {"1234 5678 9012 3456 7890", "x1234\t5678 9012 3456 78901"}
    THEN "12345678901234567890" ELSE ""

\* C24: the token is that of the "Stroom/Nomor Token" line when there is one,
\* otherwise that of the "TOKEN:" line, otherwise that of a bare run of five
\* groups of four digits separated by white space, wherever the lines stand
\* in the text; it is empty or exactly twenty digits.
C24_TokenField ==
  ret.done =>
    /\ ret.value.token =
         orElse(orElse(IF arg.stroom = "" THEN "" ELSE "11112222333344445555",
                       IF arg.label = "" THEN "" ELSE "66667777888899990000"),
                BareToken(arg.bare))
    /\ ret.value.token = "" \/ (Len(ret.value.token) = 20 /\ IsDigits(ret.value.token))

\* the bare groups come first in the text and the labelled token is taken
C24_Witness ==
  /\ ret.done
  /\ arg.stroom = ""
  /\ arg.label = "TOKEN : 6666 7777 8888 9999 0000"
  /\ arg.bare = "1234 5678 9012 3456 7890"
  /\ arg.order = <<3, 2, 1>>
  /\ ret.value.token = "66667777888899990000"

\* C25: when a call of processReceipt that got its OCR worker has resolved
\* or rejected, the worker has been terminated exactly once in it, whether
\* the recognition failed or a later step raised.
C25_TerminatedOnce ==
  pc = "settled" /\ recognized # "pending" => terminations = 1

Reversed(seq) == [i \in 1..Len(seq) |-> seq[Len(seq) + 1 - i]]

\* the places in the list of the denominations within whose tolerance num lies
InTolerance(num) == {i \in DOMAIN denominations : WithinThreshold(num, denominations[i])}

\* the largest amount in the tolerance of den and the smallest
ToleranceTop(den) == den + (thresholdPct * den) \div 100
ToleranceBottom(den) == den - (thresholdPct * den) \div 100

\* C26: the tolerance intervals of the six denominations are pairwise
\* disjoint; so a non-negative amount lies in at most one of them, scanning
\* the denominations in the opposite order gives the same result, and an
\* amount that is snapped goes to the denomination nearest to it.
C26_DisjointTolerances ==
  /\ \A i, j \in DOMAIN denominations :
       i < j => ToleranceTop(denominations[i]) < ToleranceBottom(denominations[j])
  /\ ret.done /\ ~parseInt(arg).nan /\ parseInt(arg).val >= 0 =>
       /\ Cardinality(InTolerance(parseInt(arg).val)) <= 1
       /\ ret.value = snapScan(arg, parseInt(arg).val, Reversed(denominations))
       /\ \A i \in InTolerance(parseInt(arg).val) :
            /\ ret.value = toString(denominations[i])
            /\ \A j \in DOMAIN denominations :
                 Distance(parseInt(arg).val, denominations[i])
                   <= Distance(parseInt(arg).val, denominations[j])

\* an amount on the lower end of the second interval, the nearest below it
\* being out of its own
C26_Witness ==
  /\ ret.done
  /\ arg = "42500"
  /\ ret.value = "50000"
  /\ InTolerance(42500) = {2}

\* C27: the record held while the result is displayed has total = base +
\* admin, where base is the integer value of its nominal when the app mode is
\* token and of its tagihan otherwise, and admin is the fee the user selected.
C27_TotalIsBasePlusAdmin ==
  view = "result" /\ currentReceiptData # JSNull =>
    /\ currentReceiptData.props.admin = JSNumber(customAdmin)
    /\ ~baseAmount(currentReceiptData).nan
    /\ currentReceiptData.props.total =
         JSNumber(baseAmount(currentReceiptData).val + customAdmin)

\* the record came from the payment extractor (it has the payment fields)
ExtractedAsPayment(v) == HasProp(v, "lokasi")

\* C28: what is handed to the printing collaborator carries the mode under
\* which its record was extracted: the payment mode exactly when the record
\* is a payment record.
C28_PrintedModeIsRecordMode ==
  printed # JSUndefined => (printed.props.mode = "payment" <=> ExtractedAsPayment(printed))

\* C29: when every call has completed and the call of the file submitted
\* last has displayed its record, the held record is that file's; and every
\* call made its acceptance check under the app mode of its submission.
C29_LastSubmittedWins ==
  /\ \A k \in DOMAIN jobs : jobs[k].checkedIn # "" => jobs[k].checkedIn = jobs[k].mode
  /\ (jobs # <<>> /\ jobs[Len(jobs)].shown /\ \A k \in DOMAIN jobs : ~jobs[k].running)
       => currentReceiptData.props.raw = jobs[Len(jobs)].file

\* C30: the sanitizer returns unchanged every value made only of digits,
\* commas, periods and slashes.
C30_SanitizerLeavesNumbers ==
  ret.done /\ (\A i \in 1..Len(arg) : SubSeq(arg, i, i) \in Digits \cup {",", ".", "/"})
    => ret.value = arg

\* the default of angsmat went through the sanitizer
C30_Witness ==
  /\ ret.done
  /\ arg = "0,00/0,00"
  /\ ret.value = "0,00/0,00"

====
